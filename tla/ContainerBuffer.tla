--------------------------- MODULE ContainerBuffer ---------------------------
(***************************************************************************)
(* The single-file store (store/container.rs) under concurrent handlers of *)
(* the mounted file system.  Writes gather in memory, in `active`; an fsync *)
(* of any inode moves all of them to `flushing` and writes them to redb in  *)
(* one transaction while others keep writing; readers look through the      *)
(* three layers.  Sizes are counted in blocks and a block is one value: the *)
(* store never looks inside one.                                            *)
(*                                                                         *)
(* Handlers that hold an inode's lock are one per inode (`call`); unlink,   *)
(* rename and setattr of attributes take no inode lock.  A step is one      *)
(* critical section of `inner` or one redb transaction.                     *)
(***************************************************************************)
EXTENDS Integers

CONSTANTS
    N,          \* bound: inodes ever allocated
    Limit,      \* bound: for each inode, the blocks of a file
    Vals,       \* block contents
    None,       \* no block, no row, nobody
    Ops,        \* the calls of the workload; a truncate to zero is "empty",
                \* one past the end "grow", any other "cut"
    Faults      \* the transactions that may fail: "flush", "unlink"

ASSUME BoundsAssumption == N \in Nat /\ Limit \in [1 .. N -> Nat]

Inos == 1 .. N
Idx(i)    == 0 .. Limit[i] - 1
NoKeep(i) == Limit[i] + 1    \* no truncation pending

\* Files: sequences of blocks and holes.
Contents == UNION {[1 .. n -> Vals \cup {None}] : n \in UNION {0 .. Limit[i] : i \in Inos}}

ASSUME NoneAssumption ==
    None \notin Nat \cup Vals \cup Contents \cup [Inos -> Contents \cup {None}]

VARIABLES
    rows,       \* INODES: the size in each inode's row, or None
    stored,     \* BLOCKS
    next,       \* next_ino
    active, flushing,   \* the two Pending buffers
    committer,  \* the inode whose fsync holds commit_lock, or None
    writing,    \* the copy of flushing being written to redb
    call,       \* the handler holding each inode's lock
    removing,   \* the unlink that holds the redb write transaction, or None
    chmod,      \* the setattr of attributes in progress
    promised    \* ghost: what the last fsync that succeeded covered, until the
                \* next change

db      == <<rows, stored, next>>
buffers == <<active, flushing, committer, writing>>
vars    == <<rows, stored, next, active, flushing, committer, writing, call,
             removing, chmod, promised>>

Idle == [kind |-> "idle"]
NoBlocks(i) == [k \in Idx(i) |-> None]
Empty == [blocks |-> [i \in Inos |-> NoBlocks(i)], sizes |-> [i \in Inos |-> None],
          keeps |-> [i \in Inos |-> NoKeep(i)]]

-----------------------------------------------------------------------------
(* Pending buffers                                                          *)

PutBlock(p, i, k, v, size) ==
    [p EXCEPT !.blocks[i][k] = v, !.sizes[i] = size]

TruncateBlocks(p, i, keep, size) ==
    [p EXCEPT !.blocks[i] = [k \in Idx(i) |-> IF k < keep THEN @[k] ELSE None],
              !.keeps[i] = IF keep < @ THEN keep ELSE @,
              !.sizes[i] = size]

\* What unlink does to both buffers.
Forgotten(p, i) ==
    [p EXCEPT !.blocks[i] = NoBlocks(i), !.sizes[i] = None, !.keeps[i] = NoKeep(i)]

\* merge_from_flushing: p is active, f the flushing that failed; the newer
\* entries of p win, and its truncations over the blocks of f.
MergedOver(p, f) ==                                                \* mutant
    [blocks |-> [i \in Inos |-> [k \in Idx(i) |->
        IF p.blocks[i][k] # None THEN p.blocks[i][k] ELSE f.blocks[i][k]]],
     sizes |-> [i \in Inos |-> IF p.sizes[i] # None THEN p.sizes[i] ELSE f.sizes[i]],
     keeps |-> [i \in Inos |-> IF p.keeps[i] # NoKeep(i) THEN p.keeps[i] ELSE f.keeps[i]]]

Merged(p, f) ==
    [blocks |-> [i \in Inos |-> [k \in Idx(i) |->
        IF p.blocks[i][k] # None THEN p.blocks[i][k]
        ELSE IF k < p.keeps[i] THEN f.blocks[i][k] ELSE None]],
     sizes |-> [i \in Inos |-> IF p.sizes[i] # None THEN p.sizes[i] ELSE f.sizes[i]],
     keeps |-> [i \in Inos |-> IF p.keeps[i] # NoKeep(i) THEN p.keeps[i] ELSE f.keeps[i]]]

\* lookup_block_in p, with what is below it, and the same for sizes.
BlocksUnder(p, i, below) ==
    [k \in Idx(i) |-> IF p.blocks[i][k] # None THEN p.blocks[i][k]
                   ELSE IF k >= p.keeps[i] THEN None ELSE below[k]]

SizeUnder(p, i, below) == IF p.sizes[i] # None THEN p.sizes[i] ELSE below

\* get_block and block_geometry, when nothing moves between their steps.
Block(i, k) == BlocksUnder(active, i, BlocksUnder(flushing, i, stored[i]))[k]
Size(i)     == SizeUnder(active, i, SizeUnder(flushing, i, rows[i]))

\* What readers see of a file, and what a restart finds: a sequence of blocks
\* and holes, or None.
File(size, blocks) == [k \in 1 .. size |-> blocks[k - 1]]
View(i)    == IF rows[i] = None THEN None ELSE File(Size(i), BlocksUnder(active, i, BlocksUnder(flushing, i, stored[i])))
Durable(i) == IF rows[i] = None THEN None ELSE File(rows[i], stored[i])

-----------------------------------------------------------------------------
(* Handlers under the inode's lock                                          *)

Return(i) == call' = [call EXCEPT ![i] = Idle]
Goto(i, c) == call' = [call EXCEPT ![i] = c]

\* write_at and truncate ask block_geometry first, which reads the row, then
\* looks for a newer size in the buffers.  A missing row is ENOENT.
Start(i, c) ==
    /\ call[i] = Idle /\ rows[i] # None
    /\ Goto(i, c)
    /\ UNCHANGED <<db, buffers, removing, chmod, promised>>

\* A write past the end is one from the end here: the gap is filled as well.
StartWrite(i, first, last, v) ==
    /\ "write" \in Ops /\ rows[i] # None /\ first <= Size(i) /\ first <= last
    /\ Start(i, [kind |-> "write", at |-> "size", row |-> rows[i],
                 first |-> first, last |-> last, v |-> v])

StartTruncate(i, n, v) ==
    /\ rows[i] # None
    /\ n # Size(i) /\ (IF n > Size(i) THEN "grow" ELSE IF n > 0 THEN "cut" ELSE "empty") \in Ops
    /\ Start(i, [kind |-> "truncate", at |-> "size", row |-> rows[i], n |-> n, v |-> v])

\* The size after a write of blocks up to last: files only grow.
SizeAfterAppend(size, first, last) == size + (last - first + 1)    \* mutant
SizeAfter(size, first, last) == IF last + 1 > size THEN last + 1 ELSE size

FindSize(i) ==
    /\ call[i].kind \in {"write", "truncate"} /\ call[i].at = "size"
    /\ LET c == call[i]
           size == SizeUnder(active, i, SizeUnder(flushing, i, c.row))
       IN  IF c.kind = "write"
           THEN Goto(i, [kind |-> "write", at |-> "put",
                         k |-> IF c.first < size THEN c.first ELSE size,
                         first |-> c.first, last |-> c.last, v |-> c.v,
                         size |-> SizeAfter(size, c.first, c.last)])
           ELSE IF c.n = size THEN Return(i)
           ELSE Goto(i, [kind |-> "truncate", at |-> "cut", n |-> c.n, old |-> size, v |-> c.v])
    /\ UNCHANGED <<db, buffers, removing, chmod, promised>>

\* A change of what readers see ends what fsync promised.
Changed(i) == promised' = [promised EXCEPT ![i] = None]

\* One put_block of the loop of rmw::write_at, which starts at the end of the
\* file if that is before the blocks to write, and keeps what is there.
WritePut(i) ==
    /\ call[i].kind = "write" /\ call[i].at = "put"
    /\ LET c == call[i]
           v == IF c.k < c.first /\ Block(i, c.k) # None THEN Block(i, c.k) ELSE c.v
       IN  /\ active' = PutBlock(active, i, c.k, v, c.size)
           /\ IF c.k = c.last THEN Return(i) ELSE Goto(i, [c EXCEPT !.k = @ + 1])
    /\ Changed(i)
    /\ UNCHANGED <<db, flushing, committer, writing, removing, chmod>>

\* rmw::truncate: at a block boundary only truncate_blocks; inside a block the
\* cut or padded block is put first.
TruncatePut(i) ==
    /\ call[i].kind = "truncate" /\ call[i].at = "cut"
    /\ LET c == call[i]
           last == IF c.n < c.old THEN c.n - 1 ELSE c.old - 1
       IN  /\ last \in Idx(i)
           /\ active' = PutBlock(active, i, last, c.v, c.n)
           /\ IF c.n < c.old THEN Goto(i, [c EXCEPT !.at = "drop"]) ELSE Return(i)
    /\ Changed(i)
    /\ UNCHANGED <<db, flushing, committer, writing, removing, chmod>>

TruncateDrop(i) ==
    /\ call[i].kind = "truncate" /\ call[i].at \in {"cut", "drop"}
    /\ LET c == call[i]
       IN  active' = TruncateBlocks(active, i, IF c.n < c.old THEN c.n ELSE c.old, c.n)
    /\ Return(i) /\ Changed(i)
    /\ UNCHANGED <<db, flushing, committer, writing, removing, chmod>>

\* get_block: the buffers, then redb if neither has an answer.
ReadActiveOnly(i, k) ==                                            \* mutant
    /\ "read" \in Ops
    /\ active.blocks[i][k] = None /\ k < active.keeps[i]
    /\ Start(i, [kind |-> "read", k |-> k])

ReadBuffers(i, k) ==
    /\ "read" \in Ops
    /\ \A p \in {active, flushing} : p.blocks[i][k] = None /\ k < p.keeps[i]
    /\ Start(i, [kind |-> "read", k |-> k])

ReadStored(i) ==
    /\ call[i].kind = "read"
    /\ Return(i)
    /\ UNCHANGED <<db, buffers, removing, chmod, promised>>

-----------------------------------------------------------------------------
(* fsync and flush of an inode: commit_pending                              *)

FsyncOk(i) == promised' = [promised EXCEPT ![i] = View(i)]

StartFsync(i) ==
    /\ "fsync" \in Ops /\ call[i] = Idle
    /\ Goto(i, [kind |-> "fsync", at |-> "lock"])
    /\ UNCHANGED <<db, buffers, removing, chmod, promised>>

\* commit_lock, then the swap; nothing pending is nothing to do.
SwapUnlocked(i) ==                                                 \* mutant
    /\ call[i].kind = "fsync" /\ call[i].at = "lock"
    /\ IF active = Empty
       THEN Return(i) /\ FsyncOk(i) /\ UNCHANGED <<active, flushing, committer>>
       ELSE /\ active' = flushing /\ flushing' = active /\ committer' = i
            /\ Goto(i, [kind |-> "fsync", at |-> "copy"])
            /\ UNCHANGED promised
    /\ UNCHANGED <<db, writing, removing, chmod>>

SwapBuffers(i) ==
    /\ call[i].kind = "fsync" /\ call[i].at = "lock" /\ committer = None
    /\ IF active = Empty
       THEN Return(i) /\ FsyncOk(i) /\ UNCHANGED <<active, flushing, committer>>
       ELSE /\ active' = flushing /\ flushing' = active /\ committer' = i
            /\ Goto(i, [kind |-> "fsync", at |-> "copy"])
            /\ UNCHANGED promised
    /\ UNCHANGED <<db, writing, removing, chmod>>

CopyFlushing(i) ==
    /\ call[i].kind = "fsync" /\ call[i].at = "copy"
    /\ writing' = flushing
    /\ Goto(i, [kind |-> "fsync", at |-> "flush"])
    /\ UNCHANGED <<db, active, flushing, committer, removing, chmod, promised>>

\* flush_to_redb in one transaction: inodes without a row are skipped.
FlushedRegardless(i) == BlocksUnder(writing, i, stored[i])         \* mutant
FlushedBlocks(i) == IF rows[i] = None THEN stored[i] ELSE BlocksUnder(writing, i, stored[i])
FlushedSize(i)   == IF rows[i] = None THEN None ELSE SizeUnder(writing, i, rows[i])

FlushToRedb(i) ==
    /\ call[i].kind = "fsync" /\ call[i].at = "flush" /\ removing = None
    /\ stored' = [j \in Inos |-> FlushedBlocks(j)]
    /\ rows' = [j \in Inos |-> FlushedSize(j)]
    /\ Goto(i, [kind |-> "fsync", at |-> "clear"])
    /\ UNCHANGED <<next, buffers, removing, chmod, promised>>

FlushFails(i) ==
    /\ "flush" \in Faults
    /\ call[i].kind = "fsync" /\ call[i].at = "flush"
    /\ active' = Merged(active, flushing) /\ flushing' = Empty
    /\ committer' = None /\ writing' = Empty /\ Return(i)
    /\ UNCHANGED <<db, removing, chmod, promised>>

ClearFlushing(i) ==
    /\ call[i].kind = "fsync" /\ call[i].at = "clear"
    /\ flushing' = Empty /\ committer' = None /\ writing' = Empty
    /\ Return(i) /\ FsyncOk(i)
    /\ UNCHANGED <<db, active, removing, chmod>>

-----------------------------------------------------------------------------
(* Without the inode's lock                                                 *)

Create ==
    /\ "create" \in Ops /\ next \in Inos /\ removing = None
    /\ rows' = [rows EXCEPT ![next] = 0] /\ next' = next + 1
    /\ UNCHANGED <<stored, buffers, call, removing, chmod, promised>>

\* A file has one directory entry, which comes and goes with its row.
DeleteRow(i) ==
    /\ rows' = [rows EXCEPT ![i] = None] /\ stored' = [stored EXCEPT ![i] = NoBlocks(i)]
    /\ Changed(i) /\ UNCHANGED next

DropPending(i) ==
    /\ active' = Forgotten(active, i) /\ flushing' = Forgotten(flushing, i)
    /\ UNCHANGED <<committer, writing>>

\* unlink opens the transaction and clears the buffers, commits, and clears
\* them again; forget_inode_locked has nothing to drop here.
UnlinkBegin(i) ==
    /\ "unlink" \in Ops /\ removing = None /\ rows[i] # None
    /\ DropPending(i) /\ removing' = i
    /\ UNCHANGED <<db, call, chmod, promised>>

UnlinkCommit ==
    /\ removing # None
    /\ DeleteRow(removing) /\ removing' = None
    /\ UNCHANGED <<buffers, call, chmod>>

UnlinkFails ==
    /\ "unlink" \in Faults /\ removing # None
    /\ removing' = None
    /\ UNCHANGED <<db, buffers, call, chmod, promised>>

\* After its transaction; with the rows gone it changes nothing readable.
UnlinkEnd(i) ==
    /\ "unlink" \in Ops /\ rows[i] = None
    /\ DropPending(i)
    /\ UNCHANGED <<db, call, removing, chmod, promised>>

\* rename over an existing file removes it and leaves its pending blocks.
Replace(i) ==
    /\ "rename" \in Ops /\ removing = None /\ rows[i] # None
    /\ DeleteRow(i)
    /\ UNCHANGED <<buffers, call, removing, chmod>>

\* A setattr of mode or times reads all attributes, size included (the row,
\* then the buffers), and later writes them back to the row.  One at a time.
ChmodRow(i) ==
    /\ "chmod" \in Ops /\ chmod = Idle /\ rows[i] # None
    /\ chmod' = [kind |-> "row", ino |-> i, size |-> rows[i]]
    /\ UNCHANGED <<db, buffers, call, removing, promised>>

ChmodSize ==
    /\ chmod.kind = "row"
    /\ chmod' = [chmod EXCEPT !.kind = "attr",
                   !.size = SizeUnder(active, chmod.ino, SizeUnder(flushing, chmod.ino, @))]
    /\ UNCHANGED <<db, buffers, call, removing, promised>>

ChmodWrite ==
    /\ chmod.kind = "attr" /\ removing = None
    /\ rows' = IF rows[chmod.ino] = None THEN rows
               ELSE [rows EXCEPT ![chmod.ino] = chmod.size]
    /\ chmod' = Idle
    /\ UNCHANGED <<stored, next, buffers, call, removing, promised>>

\* The process or the machine stops: redb keeps its last commit.
Crash ==
    /\ "crash" \in Ops
    /\ active' = Empty /\ flushing' = Empty /\ committer' = None /\ writing' = Empty
    /\ call' = [i \in Inos |-> Idle] /\ chmod' = Idle /\ removing' = None
    /\ next' = 1 + (CHOOSE m \in {0} \cup {i \in Inos : rows[i] # None} :
                      \A i \in Inos : rows[i] # None => i <= m)
    /\ UNCHANGED <<rows, stored, promised>>

-----------------------------------------------------------------------------

Init ==
    /\ rows = [i \in Inos |-> None] /\ stored = [i \in Inos |-> NoBlocks(i)] /\ next = 1
    /\ active = Empty /\ flushing = Empty /\ committer = None /\ writing = Empty
    /\ call = [i \in Inos |-> Idle] /\ removing = None /\ chmod = Idle
    /\ promised = [i \in Inos |-> None]

Flush(i) == FlushToRedb(i) \/ FlushFails(i)

Handler(i) ==
    \/ FindSize(i) \/ WritePut(i) \/ TruncatePut(i) \/ TruncateDrop(i) \/ ReadStored(i)
    \/ SwapBuffers(i) \/ CopyFlushing(i) \/ Flush(i) \/ ClearFlushing(i)

Unlinker == UnlinkCommit \/ UnlinkFails

Next ==
    \/ Create \/ Unlinker \/ ChmodSize \/ ChmodWrite \/ Crash
    \/ \E i \in Inos :
         \/ \E first, last \in Idx(i), v \in Vals : StartWrite(i, first, last, v)
         \/ \E n \in 0 .. Limit[i], v \in Vals : StartTruncate(i, n, v)
         \/ \E k \in Idx(i) : ReadBuffers(i, k)
         \/ StartFsync(i) \/ Handler(i)
         \/ UnlinkBegin(i) \/ UnlinkEnd(i) \/ Replace(i) \/ ChmodRow(i)

Spec == Init /\ [][Next]_vars

-----------------------------------------------------------------------------
(* Properties                                                               *)

PendingOK(p) ==
    \A i \in Inos :
        /\ p.blocks[i] \in [Idx(i) -> Vals \cup {None}]
        /\ p.sizes[i] \in 0 .. Limit[i] \cup {None}
        /\ p.keeps[i] \in 0 .. NoKeep(i)

TypeOK ==
    /\ \A i \in Inos : /\ rows[i] \in 0 .. Limit[i] \cup {None}
                       /\ stored[i] \in [Idx(i) -> Vals \cup {None}]
    /\ next \in 1 .. N + 1
    /\ PendingOK(active) /\ PendingOK(flushing) /\ PendingOK(writing)
    /\ committer \in Inos \cup {None} /\ removing \in Inos \cup {None}
    /\ DOMAIN call = Inos /\ DOMAIN promised = Inos

\* The comment of fsync in ContainerStore: what was written before an fsync
\* that succeeded is on disk, until the file is changed or removed.
FsyncDurable == \A i \in Inos : promised[i] # None => Durable(i) = promised[i]

\* unlink against a commit in progress: BLOCKS never holds a block of an inode
\* without a row, which would be unreachable and, since numbers are given out
\* again after a restart, become the content of a new file.
NoOrphans == \A i \in Inos : rows[i] = None => stored[i] = NoBlocks(i)

\* get_block looks at redb after the buffers, without a lock between: what it
\* is about to return is still the current block, whatever was committed
\* meanwhile.
ReadThrough ==
    \A i \in Inos : call[i].kind = "read" /\ rows[i] # None /\ removing # i =>
        stored[i][call[i].k] = Block(i, call[i].k)

\* The commits are those of a write-back store.
ViewOrGone(i) == IF removing = i THEN None ELSE View(i)
InFlight(i, p) == IF rows[i] = None \/ removing = i THEN None
                  ELSE File(SizeUnder(p, i, rows[i]), BlocksUnder(p, i, stored[i]))
Batch ==
    IF \E i \in Inos : call[i].kind = "fsync" /\ call[i].at = "copy"
    THEN [i \in Inos |-> InFlight(i, flushing)]
    ELSE IF \E i \in Inos : call[i].kind = "fsync" /\ call[i].at = "flush"
    THEN [i \in Inos |-> InFlight(i, writing)]
    ELSE None

Promise == INSTANCE WriteBackStore WITH
    Gone <- None, NoBatch <- None,
    view <- [i \in Inos |-> ViewOrGone(i)], batch <- Batch,
    durable <- [i \in Inos |-> Durable(i)]

\* Whatever the interleaving of writes, commits, removals and failures, each
\* commit makes one instant of all files durable as a whole, and a failed one
\* leaves every reader what it had.
ImplementsWriteBack == Promise!Spec
=============================================================================
