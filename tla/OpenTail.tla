------------------------------ MODULE OpenTail ------------------------------
(***************************************************************************)
(* The write path of one regular file in the mounted file system: the      *)
(* handlers of ScrollzRw drive TailSessions (core/wsession.rs), which keeps *)
(* the uncompressed open tail block, over the read-modify-write of         *)
(* core/rmw.rs, over the dirty session of the store, over the archive.     *)
(*                                                                         *)
(* The archive's commits are atomic here (ArchiveCommit shows why) and may *)
(* fail before or after the new version is published.  A handler holds the *)
(* inode's write lock from start to end, so reads see the states where no  *)
(* handler is running; a crash may come at any step of a handler.          *)
(***************************************************************************)
EXTENDS Integers, SequencesExt

CONSTANTS
    Bad,          \* stands for a byte whose read fails with EIO
    Modes         \* the mounts and workloads to look at, records of:
                  \*   chunk    chunk size in bytes
                  \*   buffer   FALSE under --no-tail-buffer
                  \*   journal  supports_tail_journal(): TRUE for ShadowStore
                  \*   ops      the calls; a write past the end is "sparse", one
                  \*            that skips a short last block "hole", a truncate
                  \*            past the end "grow"
                  \*   faults   where archive commits may fail: "before" or
                  \*            "after" the version is published, or "late", in
                  \*            the sync after it; those of a full tail only
                  \*            with "seal" as well
                  \*   files    archives the mount may start from
                  \*   bytes    the byte values written; 0 is the byte of a hole
                  \*   size     bound: file size in bytes
                  \*   write    bound: bytes of one write

ASSUME BoundsAssumption == \A m \in Modes : m.chunk \in Nat \ {0} /\ m.size \in Nat /\ m.write \in Nat
ASSUME ModeAssumption == \A m \in Modes : m.buffer \in BOOLEAN /\ m.journal \in BOOLEAN

VARIABLES
    mode,     \* one of Modes, chosen when the file system is mounted
    disk,     \* the archive version an open of the file finds
    stable,   \* the archive version every crash preserves
    seen,     \* the version behind the cached reader, or disk if none
    sess,     \* the store's active WriteSession of this inode
    tail,     \* InodeState.tail
    at, job,  \* the step of the handler in progress and its arguments
    file,     \* ghost: what a POSIX file would contain
    floor     \* ghost: a prefix some successful fsync promised

vars == <<mode, disk, stable, seen, sess, tail, at, job, file, floor>>
archive == <<disk, stable, seen>>

Min2(a, b) == IF a < b THEN a ELSE b
Max2(a, b) == IF a > b THEN a ELSE b
CeilDiv(n, d) == (n + d - 1) \div d

C           == mode.chunk
Ops         == mode.ops
Faults      == mode.faults
TailBuffer  == mode.buffer
TailJournal == mode.journal
MaxSize     == mode.size

\* A gap block is a chunk of zeros.
INSTANCE ArchiveVersion WITH Zero <- [k \in 1 .. C |-> 0]

NoKeep == MaxSize + 1     \* truncate_to = None
NoSess == [open |-> FALSE, dirty |-> <<>>, size |-> 0, keep |-> NoKeep]
NoTail == [open |-> FALSE, idx |-> 0, plain |-> <<>>, size |-> 0, journaled |-> 0]
NoJob  == [kind |-> "none"]

\* plain.resize(n, 0), which also truncates.
Resized(s, n) == [k \in 1 .. n |-> IF k <= Len(s) THEN s[k] ELSE 0]

-----------------------------------------------------------------------------
(* Reading                                                                  *)

\* ArchiveReader: block i, or the replayed journal if i is the first block
\* past the index.
ArchiveBlock(v, i) ==
    IF i < Len(v.blocks) THEN v.blocks[i + 1]
    ELSE IF i = Len(v.blocks) THEN v.tail ELSE <<>>

\* Store::get_block and load_plain_block: session s first, then the archive.
SessionBlock(s, i) ==
    IF s.open /\ i \in DOMAIN s.dirty THEN s.dirty[i]
    ELSE IF s.open /\ i >= s.keep THEN <<>>
    ELSE ArchiveBlock(seen, i)

StoreBlock(i) == SessionBlock(sess, i)

\* Store::block_geometry and TailSessions::geometry_locked.
StoreSize == IF sess.open THEN sess.size ELSE seen.size
FileSize  == IF tail.open THEN tail.size ELSE StoreSize

\* read_range over the whole file: blocks are zero-filled at the end of the
\* file and where they are missing; a short block elsewhere is an error.
ReadAll(size, blocks, tailIdx) ==
    [k \in 1 .. size |->
        LET i    == (k - 1) \div C
            b    == blocks[i]
            off  == k - i * C
            last == (i + 1) * C >= size
        IN  IF off <= Len(b) THEN b[off]
            ELSE IF last \/ i = tailIdx \/ b = <<>> THEN 0 ELSE Bad]

Indices == 0 .. MaxSize \div C

Content ==
    ReadAll(FileSize,
            [i \in Indices |-> IF tail.open /\ i = tail.idx THEN tail.plain ELSE StoreBlock(i)],
            IF tail.open THEN tail.idx ELSE -1)

\* What a fresh mount of archive version v serves.
Mounted(v) == ReadAll(v.size, [i \in Indices |-> ArchiveBlock(v, i)], -1)

-----------------------------------------------------------------------------
(* The store: dirty session and archive commits                             *)

\* A dirty session exists from its first put_block or truncate_blocks on.
PutBlocks(s, blocks, size) ==
    [s EXCEPT !.open = TRUE, !.size = size,
              !.dirty = [i \in DOMAIN @ \cup DOMAIN blocks |->
                           IF i \in DOMAIN blocks THEN blocks[i] ELSE @[i]]]

TruncateBlocks(s, keep, size) ==
    [s EXCEPT !.open = TRUE, !.size = size, !.keep = Min2(@, keep),
              !.dirty = [i \in {j \in DOMAIN @ : j < keep} |-> @[i]]]

\* ArchiveUpdater as its three callers use it.
WithAppended(v, delta, size) == [v EXCEPT !.tail = @ \o delta, !.size = size]
WithSealedKeptJournal(v, i, plain, size) ==                        \* mutant
    [v EXCEPT !.blocks = Overlay(@, NoKeep, [j \in {i} |-> plain]), !.size = size]
WithSealed(v, i, plain, size) ==
    [blocks |-> Overlay(v.blocks, NoKeep, [j \in {i} |-> plain]), tail |-> <<>>, size |-> size]
WithSessionOldSize(v, s) == [v EXCEPT !.blocks = Overlay(@, s.keep, s.dirty)]  \* mutant
WithSession(v, s) ==
    [v EXCEPT !.blocks = Overlay(@, s.keep, s.dirty), !.size = s.size]

\* A commit publishes v durably; or fails with nothing published; or fails
\* in its second barrier, when v is already what an open finds and the
\* previous version is durable.  A failed call leaves the cached reader, but
\* release drops it all the same.
Committed(v) == disk' = v /\ stable' = v /\ seen' = v

CommitFailed(v) ==
    /\ \/ "before" \in Faults /\ UNCHANGED disk /\ stable' \in {stable, disk}
       \/ "after" \in Faults /\ disk' = v /\ stable' = disk
    /\ seen' \in IF job.kind = "release" /\ at = "commit" THEN {disk'}
                ELSE IF seen = disk THEN {seen, disk'} ELSE {seen}

-----------------------------------------------------------------------------
(* Writes                                                                   *)

Done == at' = "idle" /\ job' = NoJob

EmptyTail(size) == [open |-> TRUE, idx |-> size \div C, plain |-> <<>>,
                    size |-> size, journaled |-> 0]

\* The last block taken from the store counts as journaled in full.
LoadedTail(s, size) ==
    [open |-> TRUE, idx |-> size \div C,
     plain |-> Resized(SessionBlock(s, size \div C), size % C),
     size |-> size, journaled |-> size % C]

\* ensure_tail_loaded
EnsuredTailNotLoaded == IF tail.open THEN tail ELSE EmptyTail(FileSize)  \* mutant
EnsuredTail ==
    IF tail.open THEN tail
    ELSE IF FileSize % C = 0 THEN EmptyTail(FileSize)
    ELSE LoadedTail(sess, FileSize)

StartAppend(data) ==
    /\ at = "idle" /\ TailBuffer /\ "append" \in Ops
    /\ FileSize + Len(data) <= MaxSize
    /\ tail' = EnsuredTail
    /\ at' = "fill" /\ job' = [kind |-> "append", rest |-> data]
    /\ UNCHANGED <<archive, sess, file, floor>>

\* One turn of the loop of append_into_tail.
FillTail ==
    /\ at = "fill"
    /\ LET take == Min2(C - Len(tail.plain), Len(job.rest))
           data == SubSeq(job.rest, 1, take)
           full == Len(tail.plain) + take = C
       IN  /\ tail' = [tail EXCEPT !.plain = @ \o data, !.size = @ + take]
           /\ file' = file \o data
           /\ IF full
              THEN at' = "seal"
                   /\ job' = [job EXCEPT !.rest = SubSeq(@, take + 1, Len(@))]
              ELSE Done
    /\ UNCHANGED <<archive, sess, floor>>

\* materialize: an empty aligned tail is dropped, any other becomes a block.
TailIsEmpty == tail.plain = <<>> /\ tail.size % C = 0
NeedsSeal   == tail.open /\ ~TailIsEmpty

\* After a successful seal an append goes on with the next block, anything
\* else with its change proper.
AfterSeal ==
    IF job.kind # "append" THEN tail' = NoTail /\ at' = "apply" /\ UNCHANGED job
    ELSE IF job.rest = <<>> THEN tail' = NoTail /\ Done
    ELSE tail' = EmptyTail(tail.size) /\ at' = "fill" /\ UNCHANGED job

SealTail ==
    /\ at = "seal"
    /\ IF TailJournal
       THEN LET v == WithSealed(disk, tail.idx, tail.plain, tail.size) IN
              /\ \/ Committed(v) /\ AfterSeal
                 \/ "seal" \in Faults /\ CommitFailed(v) /\ Done /\ UNCHANGED tail
              /\ UNCHANGED sess
       ELSE /\ sess' = PutBlocks(sess, [i \in {tail.idx} |-> tail.plain], tail.size)
            /\ AfterSeal
            /\ UNCHANGED archive
    /\ UNCHANGED <<file, floor>>

\* The writes that OpenTailHole is about; see the README.
SkipsShortBlock(off) == FileSize % C # 0 /\ off \div C > FileSize \div C

\* A write elsewhere than at the end, or any write without a tail buffer.
StartWrite(off, data) ==
    /\ at = "idle"
    /\ (IF SkipsShortBlock(off) THEN "hole"
        ELSE IF off > FileSize THEN "sparse" ELSE "write") \in Ops
    /\ TailBuffer => off # FileSize
    /\ off + Len(data) <= MaxSize
    /\ tail' = IF NeedsSeal THEN tail ELSE NoTail
    /\ at' = IF NeedsSeal THEN "seal" ELSE "apply"
    /\ job' = [kind |-> "write", off |-> off, data |-> data]
    /\ floor' = <<>>
    /\ UNCHANGED <<archive, sess, file>>

\* The size after a write: files only grow.
SizeAfterAppend(off, data) == StoreSize + Len(data)                \* mutant
SizeAfter(off, data) == Max2(StoreSize, off + Len(data))

\* Block i of the file with the data written, over what the store has of it.
RewrittenBlock(off, data, i) ==
    [k \in 1 .. Min2((i + 1) * C, SizeAfter(off, data)) - i * C |->
       IF i * C + k > off /\ i * C + k <= off + Len(data) THEN data[i * C + k - off]
       ELSE IF k <= Len(StoreBlock(i)) THEN StoreBlock(i)[k] ELSE 0]

\* rmw::write_at: every block from the first one missing or touched to the
\* last one touched is rebuilt and put back.
Rewritten(off, data) ==
    LET first == Min2(off \div C, CeilDiv(StoreSize, C))
        last  == (off + Len(data) - 1) \div C
    IN  PutBlocks(sess, [i \in first .. last |-> RewrittenBlock(off, data, i)], SizeAfter(off, data))

\* refill_tail_from_store, on the session just written.
RefilledTail(s) == IF ~TailBuffer \/ s.size % C = 0 THEN NoTail ELSE LoadedTail(s, s.size)

ApplyWrite ==
    /\ at = "apply" /\ job.kind = "write"
    /\ LET end == job.off + Len(job.data) IN
         /\ sess' = Rewritten(job.off, job.data)
         /\ tail' = RefilledTail(sess')
         /\ file' = [k \in 1 .. Max2(Len(file), end) |->
                       IF k > job.off /\ k <= end THEN job.data[k - job.off]
                       ELSE IF k <= Len(file) THEN file[k] ELSE 0]
    /\ Done
    /\ UNCHANGED <<archive, floor>>

StartTruncate(n) ==
    /\ at = "idle" /\ (IF n > FileSize THEN "grow" ELSE "truncate") \in Ops
    /\ tail' = IF NeedsSeal THEN tail ELSE NoTail
    /\ at' = IF NeedsSeal THEN "seal" ELSE "apply"
    /\ job' = [kind |-> "truncate", size |-> n]
    /\ floor' = <<>>
    /\ UNCHANGED <<archive, sess, file>>

\* rmw::truncate: the block at the new end, or at the old end when growing,
\* is cut or zero-filled; whole blocks past the end are dropped; a hole gets
\* no block.
Cut(n) ==
    LET i == n \div C IN
      IF n % C = 0 THEN TruncateBlocks(sess, i, n)
      ELSE TruncateBlocks(PutBlocks(sess, [j \in {i} |-> Resized(StoreBlock(i), n % C)], n),
                          i + 1, n)

Grown(n) ==
    LET i    == StoreSize \div C
        want == Min2((i + 1) * C, n) - i * C
    IN  IF StoreSize % C = 0 THEN TruncateBlocks(sess, i, n)
        ELSE PutBlocks(sess, [j \in {i} |-> Resized(StoreBlock(i),
                                                    Max2(want, Len(StoreBlock(i))))], n)

ApplyTruncate ==
    /\ at = "apply" /\ job.kind = "truncate"
    /\ sess' = IF job.size < StoreSize THEN Cut(job.size)
               ELSE IF job.size > StoreSize THEN Grown(job.size) ELSE sess
    /\ file' = Resized(file, job.size)
    /\ Done
    /\ UNCHANGED <<archive, tail, floor>>

-----------------------------------------------------------------------------
(* fsync, flush, release and forget: seal_locked, then Store::fsync         *)

StartSync(kind) ==
    /\ at = "idle" /\ kind \in Ops
    /\ at' = "journal" /\ job' = [kind |-> kind]
    /\ UNCHANGED <<archive, sess, tail, file, floor>>

\* The bytes of the tail the journal does not hold yet.
WholeTail == tail.plain                                            \* mutant
Unjournaled == SubSeq(tail.plain, tail.journaled + 1, Len(tail.plain))

\* seal_locked: the bytes not journaled yet are appended to the journal and
\* the buffer stays; without a journal the tail becomes a dirty block.
JournalTail ==
    /\ at = "journal"
    /\ IF ~tail.open \/ TailIsEmpty
       THEN tail' = NoTail /\ at' = "commit" /\ UNCHANGED <<archive, sess, job>>
       ELSE IF ~TailJournal
       THEN /\ sess' = PutBlocks(sess, [i \in {tail.idx} |-> tail.plain], tail.size)
            /\ tail' = NoTail /\ at' = "commit" /\ UNCHANGED <<archive, job>>
       ELSE IF tail.journaled = Len(tail.plain)
       THEN at' = "commit" /\ UNCHANGED <<archive, sess, tail, job>>
       ELSE LET v == WithAppended(disk, Unjournaled, tail.size)
            IN  /\ \/ /\ Committed(v)
                      /\ tail' = [tail EXCEPT !.journaled = Len(tail.plain)]
                      /\ at' = "commit" /\ UNCHANGED job
                   \/ /\ CommitFailed(v)
                      /\ IF job.kind = "release" THEN at' = "commit" /\ UNCHANGED job ELSE Done
                      /\ UNCHANGED tail
                /\ UNCHANGED sess
    /\ UNCHANGED <<file, floor>>

\* commit_session: a session is committed, and kept if that fails, except in
\* its last sync; without one the archive file is only synced.  forget then drops the buffer;
\* release and forget drop the cached reader.
CommitOk == /\ floor' = IF job.kind = "fsync" THEN file ELSE floor
            /\ tail' = IF job.kind = "forget" THEN NoTail ELSE tail

CommitStore ==
    /\ at = "commit" /\ Done
    /\ IF sess.open
       THEN \/ /\ Committed(WithSession(disk, sess)) /\ sess' = NoSess
               /\ \/ CommitOk
                  \/ "late" \in Faults /\ UNCHANGED <<tail, floor>>
            \/ CommitFailed(WithSession(disk, sess)) /\ UNCHANGED <<sess, tail, floor>>
       ELSE /\ UNCHANGED <<disk, sess>>
            /\ \/ /\ stable' = disk /\ CommitOk
                  /\ seen' = IF job.kind = "fsync" THEN seen ELSE disk
               \/ /\ "before" \in Faults /\ UNCHANGED <<stable, tail, floor>>
                  /\ seen' = IF job.kind = "release" THEN disk ELSE seen
    /\ UNCHANGED file

\* The machine stops, or only the daemon does (then v is disk); the file is
\* mounted again from what is left.
Crash ==
    /\ "crash" \in Ops
    /\ \E v \in {disk, stable} :
         /\ disk' = v /\ stable' = v /\ seen' = v
         /\ file' = Mounted(v)
    /\ sess' = NoSess /\ tail' = NoTail /\ Done
    /\ UNCHANGED floor

-----------------------------------------------------------------------------

Init ==
    /\ mode \in Modes
    /\ disk \in mode.files
    /\ stable = disk /\ seen = disk
    /\ sess = NoSess /\ tail = NoTail
    /\ at = "idle" /\ job = NoJob
    /\ file = Mounted(disk) /\ floor = file

Data == UNION { [1 .. n -> mode.bytes] : n \in 1 .. mode.write }

Next ==
    /\ UNCHANGED mode
    /\ \/ \E data \in Data : StartAppend(data)
       \/ \E off \in 0 .. MaxSize, data \in Data : StartWrite(off, data)
       \/ \E n \in 0 .. MaxSize : StartTruncate(n)
       \/ \E kind \in {"fsync", "release", "forget"} : StartSync(kind)
       \/ FillTail \/ SealTail \/ ApplyWrite \/ ApplyTruncate
       \/ JournalTail \/ CommitStore
       \/ Crash

Spec == Init /\ [][Next]_vars

-----------------------------------------------------------------------------
(* Properties                                                               *)

ByteSeq == Seq(mode.bytes \cup {0, Bad})
Version == [blocks : Seq(ByteSeq), tail : ByteSeq, size : 0 .. MaxSize]

TypeOK ==
    /\ mode \in Modes
    /\ disk \in Version /\ stable \in Version /\ seen \in Version
    /\ sess.size \in 0 .. MaxSize /\ sess.keep \in 0 .. NoKeep
    /\ tail.size \in 0 .. MaxSize /\ tail.journaled \in 0 .. Len(tail.plain)
    /\ Len(tail.plain) <= C
    /\ at \in {"idle", "fill", "seal", "apply", "journal", "commit"}
    /\ file \in ByteSeq /\ floor \in ByteSeq

\* An archive as ingest or an earlier mount leaves it: every block but the last
\* is full, and so is the last where a journal may follow.
FileOK(m, v) ==
    /\ v \in [blocks : Seq(Seq(m.bytes \cup {0})), tail : Seq(m.bytes \cup {0}), size : 0 .. m.size]
    /\ \A j \in 1 .. Len(v.blocks) :
         LET start == (j - 1) * m.chunk IN
         start < v.size /\ Len(v.blocks[j]) = Min2(m.chunk, v.size - start)
    /\ IF m.buffer /\ m.journal
       THEN Len(v.tail) < m.chunk /\ v.size = Len(v.blocks) * m.chunk + Len(v.tail)
       ELSE v.tail = <<>>

\* The mounts that keep all of the following.  What the code does on others is
\* told in the README.
Supported(modes) ==
    \A m \in modes :
        /\ "hole" \notin m.ops /\ \A v \in m.files : FileOK(m, v)
        /\ m.buffer /\ m.journal =>
             /\ m.ops \cap {"write", "sparse", "truncate", "grow"} = {}
             /\ m.faults \cap {"after", "seal"} = {}

\* Read-your-writes: whenever no handler runs, reading the whole file through
\* the tail buffer, the session and the archive gives the POSIX content.
ReadBack == at = "idle" => Content = file

\* What a successful fsync covered, and nothing has overwritten since, is a
\* prefix of what a mount after any crash serves.
FsyncDurable == IsPrefix(floor, Mounted(stable)) /\ IsPrefix(floor, Mounted(disk))

\* Appending, a crash loses a suffix at most: it never serves bytes that
\* were not written, nor in another place or number.
NothingInvented ==
    Ops \cap {"write", "sparse", "hole", "truncate", "grow"} = {} =>
        IsPrefix(Mounted(stable), file) /\ IsPrefix(Mounted(disk), file)

\* The assertion of ArchiveUpdater::commit: no commit changes the index while
\* a journal is kept, or the replay would cover sealed bytes.  The mounts with a
\* journal that are Supported have no such commit; on others the code breaks it.
CommitContract ==
    ~ ( at = "commit" /\ sess.open /\ disk.tail # <<>>
        /\ (DOMAIN sess.dirty # {} \/ sess.keep # NoKeep) )

\* The journal holds exactly the part of the open tail counted as journaled,
\* so the next fsync appends the right bytes.
JournalMatchesTail ==
    at = "idle" /\ tail.open /\ TailJournal =>
        /\ tail.idx = Len(disk.blocks)
        /\ disk.tail = SubSeq(tail.plain, 1, tail.journaled)
=============================================================================
