-------------------------------- MODULE Rewrite --------------------------------
(***************************************************************************)
(* The offline rewrites of a shadow backing (seal.rs, compact.rs), for one   *)
(* file of it.  An archive is read, its blocks and its tail journal are      *)
(* written to a temporary archive beside it, in blocks of another size        *)
(* (seal) or as they are (compact), and a rename puts that in its place.     *)
(* Daemons write the file before and after: the lock of the backing keeps    *)
(* them apart.  A crash may lose the names the directory was not synced      *)
(* with, and may tear a file that was not synced; to sync the directory may  *)
(* fail, and then the rewrite goes on with a warning.                        *)
(*                                                                          *)
(* How the daemon commits is the business of ArchiveCommit and OpenTail:     *)
(* here a commit replaces the archive in place by one with the new content.  *)
(***************************************************************************)
EXTENDS Integers, Sequences, SequencesExt

CONSTANTS
    Ids,          \* inodes of the backing
    Bytes,        \* 0 among them
    MaxLen,       \* bound on the file's length
    ChunkSizes,   \* chunk sizes: of the store, and targets of seal
    Holes,        \* the file may end in a hole: extended, and not written since
    None, Torn

ASSUME ChunkSizesPositive == ChunkSizes \subseteq Nat \ {0}
ASSUME MaxLenNat == MaxLen \in Nat

VARIABLES
    file,      \* inode -> its archive, and whether it was synced
    name,      \* the inode the file's name stands for
    onDisk,    \* the inodes it may stand for after a crash
    temps,     \* inodes under names of temporary files
    lock,      \* who holds the lock of the backing
    job,       \* the rewrite: its step, the target chunk size, its temporary file
    content,   \* ghost: inode -> what the daemons had committed while it was the file
    warned     \* ghost: the directory of the last rename could not be synced

vars == <<file, name, onDisk, temps, lock, job, content, warned>>

Contents == SeqOf(Bytes, MaxLen)
Ceil(n, d) == (n + d - 1) \div d
Smaller(a, b) == IF a < b THEN a ELSE b
Larger(a, b) == IF a < b THEN b ELSE a

-----------------------------------------------------------------------------
(* Archives                                                                 *)

\* Bytes as blocks of one size, the last of which may be short.
Blocks(bytes, chunk) ==
    [i \in 1..Ceil(Len(bytes), chunk) |->
        SubSeq(bytes, (i - 1) * chunk + 1, Smaller(i * chunk, Len(bytes)))]

Archive(chunk, blocks, tail, size) ==
    [chunk |-> chunk, blocks |-> blocks, tail |-> tail, size |-> size]

\* ingest_file: the source in blocks, and no journal.
Ingested(bytes, chunk) == Archive(chunk, Blocks(bytes, chunk), <<>>, Len(bytes))

\* What a daemon may have made of the content: the bytes after the last full
\* block are a block or the journal; whole blocks of a hole at the end are not
\* there.
Committed(bytes, chunk) ==
    LET full(n) == SubSeq(bytes, 1, n * chunk)
        rest(n) == SubSeq(bytes, n * chunk + 1, Len(bytes))
        last    == Len(bytes) \div chunk
    IN {Ingested(bytes, chunk), Archive(chunk, Blocks(full(last), chunk), rest(last), Len(bytes))}
       \cup {Archive(chunk, Blocks(full(n), chunk), <<>>, Len(bytes)) :
                n \in {k \in 0..last : Holes /\ \A i \in DOMAIN rest(k) : rest(k)[i] = 0}}

\* read_range over a whole file: the blocks, the journal as the block after
\* them, and zeros where there is no block.
Logical(a) ==
    LET data == FlattenSeq(a.blocks) \o a.tail
    IN [i \in 1..a.size |-> IF i \in DOMAIN data THEN data[i] ELSE 0]

\* seal_file: all blocks and the journal cut anew, in blocks no smaller than
\* before.
SealedWithoutTail(a, target) == Ingested(FlattenSeq(a.blocks), Larger(a.chunk, target))  \* mutant
Sealed(a, target)            == Ingested(FlattenSeq(a.blocks) \o a.tail, Larger(a.chunk, target))

\* compact_file, block_rawlen: the blocks as they are, the journal as a last
\* one; the size is the sum of their lengths as the old size gives them.
RawLen(a, i) == Larger(0, Smaller(a.size - (i - 1) * a.chunk, a.chunk))
Compacted(a) ==
    LET lens   == [i \in DOMAIN a.blocks |-> RawLen(a, i)]
        blocks == IF a.tail = <<>> THEN a.blocks ELSE Append(a.blocks, a.tail)
    IN Archive(a.chunk, blocks, <<>>, FoldLeft(+, 0, lens) + Len(a.tail))

-----------------------------------------------------------------------------

\* An inode without a name, or with one that nobody opens again.
Garbage == [arc |-> Torn, synced |-> FALSE]

Idle == [pc |-> "idle", target |-> 0, temp |-> None]

Init ==
    /\ \E i \in Ids, chunk \in ChunkSizes, c \in {c \in Contents : Len(c) <= 1} :
          /\ name = i
          /\ file = [j \in Ids |-> IF j = i THEN [arc |-> Ingested(c, chunk), synced |-> TRUE]
                                   ELSE Garbage]
          /\ content = [j \in Ids |-> IF j = i THEN c ELSE <<>>]
    /\ onDisk = {name} /\ warned = FALSE
    /\ temps = {} /\ lock = None /\ job = Idle

\* ShadowStore::open, unmount.
Daemon ==
    /\ \/ lock = None /\ lock' = "daemon"
       \/ lock = "daemon" /\ lock' = None
    /\ UNCHANGED <<file, name, onDisk, temps, job, content, warned>>

\* Bound: of the commits that a crash may take back, one, which appends.
MayCommit(c) ==
    \/ onDisk = {name}
    \/ IsPrefix(content[name], c) /\ \A i \in onDisk : content[i] = content[name]

\* A commit of a longer or a shorter file, or of one that only differs.
DaemonCommit ==
    /\ lock = "daemon"
    /\ \E c \in Contents :
          /\ Len(c) - Len(content[name]) \in -1..2 /\ MayCommit(c)
          /\ content' = [content EXCEPT ![name] = c]
          /\ \E a \in Committed(c, file[name].arc.chunk) : file' = [file EXCEPT ![name].arc = a]
    /\ UNCHANGED <<name, onDisk, temps, lock, job, warned>>

\* seal_shadow_tree, compact_shadow_tree: acquire_backing_retry.  The target is
\* 0 for compact.
Begin ==
    /\ job = Idle /\ lock = None
    /\ lock' = "rewrite"
    /\ \E target \in ChunkSizes \cup {0} : job' = [Idle EXCEPT !.pc = "read", !.target = target]
    /\ UNCHANGED <<file, name, onDisk, temps, content, warned>>

At(pc)   == job.pc = pc
Goto(pc) == job' = [job EXCEPT !.pc = pc]
Finish   == /\ job' = Idle
            /\ lock' = IF lock = "rewrite" THEN None ELSE lock

\* A file with no journal and blocks as large as the target is left alone.
NothingToSeal(a) == job.target # 0 /\ a.chunk >= job.target /\ a.tail = <<>>

Rewritten(a) == IF job.target = 0 THEN Compacted(a) ELSE Sealed(a, job.target)

\* The temporary archive is written.
WriteTemp ==
    /\ At("read")
    /\ LET a == file[name].arc
       IN IF NothingToSeal(a) THEN Finish /\ UNCHANGED <<file, temps>>
          ELSE \E t \in Ids \ (temps \cup onDisk) :
                  /\ file' = [file EXCEPT ![t] = [arc |-> Rewritten(a), synced |-> FALSE]]
                  /\ temps' = temps \cup {t}
                  /\ job' = [job EXCEPT !.pc = "sync", !.temp = t]
                  /\ UNCHANGED lock
    /\ UNCHANGED <<name, onDisk, content, warned>>

\* sync_all.
SyncTemp ==
    /\ At("sync")
    /\ file' = [file EXCEPT ![job.temp].synced = TRUE]
    /\ Goto("rename")
    /\ UNCHANGED <<name, onDisk, temps, lock, content, warned>>

\* A compaction that gains nothing, and a rename that fails: the temporary file
\* is removed.
DropTemp ==
    /\ At("rename")
    /\ temps' = temps \ {job.temp}
    /\ file' = [file EXCEPT ![job.temp] = Garbage]
    /\ Finish
    /\ UNCHANGED <<name, onDisk, content, warned>>

TempsAfterRenameKept == temps  \* mutant
TempsAfterRename     == temps \ {job.temp}

RenameTemp ==
    /\ At("rename")
    /\ name' = job.temp
    /\ onDisk' = onDisk \cup {job.temp}
    /\ content' = [content EXCEPT ![job.temp] = content[name]]
    /\ temps' = TempsAfterRename
    /\ Goto("fsync_dir")
    /\ UNCHANGED <<file, lock, warned>>

\* Of all inodes only those in s can still be opened.
Keep(s) ==
    /\ file' = [i \in Ids |-> IF i \in s THEN file[i] ELSE Garbage]
    /\ content' = [i \in Ids |-> IF i \in s THEN content[i] ELSE <<>>]

\* fsync_dir_of: an error is a warning, and the rewrite ends well; the lock is
\* dropped at the end of the tree.
FsyncDir ==
    /\ At("fsync_dir")
    /\ \E durable \in BOOLEAN :
          /\ onDisk' = IF durable THEN {name} ELSE onDisk
          /\ warned' = ~durable
    /\ Keep(onDisk')
    /\ Finish
    /\ UNCHANGED <<name, temps>>

\* An error before the rename ends the rewrite of this file: the temporary file
\* stays.
Fail ==
    /\ job.pc \in {"read", "sync"}
    /\ Keep(onDisk)
    /\ Finish
    /\ UNCHANGED <<name, onDisk, temps, warned>>

\* The machine goes down, and is up again.
Crash ==
    /\ name' \in onDisk /\ onDisk' = {name'}
    /\ \E intact \in SUBSET {name'} :
          Keep({i \in {name'} : file[i].synced} \cup intact)
    /\ temps' \in SUBSET ((temps \cup onDisk) \ {name'})
    /\ job' = Idle /\ lock' = None /\ warned' = FALSE

Next ==
    \/ Daemon
    \/ DaemonCommit
    \/ Begin
    \/ WriteTemp
    \/ SyncTemp
    \/ DropTemp
    \/ RenameTemp
    \/ FsyncDir
    \/ Fail
    \/ Crash

Spec == Init /\ [][Next]_vars

-----------------------------------------------------------------------------

\* The types, and that the file's name and those of temporary files stand for
\* different inodes.
TypeOK ==
    /\ name \in onDisk /\ onDisk \subseteq Ids
    /\ temps \subseteq Ids \ {name}
    /\ \A i \in Ids : file[i].synced \in BOOLEAN
    /\ lock \in {None, "daemon", "rewrite"}
    /\ job # Idle => lock = "rewrite"
    /\ content \in [Ids -> Contents] /\ warned \in BOOLEAN

Holding(i) == file[i].synced /\ file[i].arc # Torn /\ Logical(file[i].arc) = content[i]

\* "The content does not change": at every step of a rewrite, whatever the
\* archive was made of, the file's name stands for a complete archive with all
\* the daemons committed, and so does each name that a crash could leave.  Only
\* when a directory could not be synced, which is a warning, a crash may go back
\* to the archive from before that rename: complete, but without the later
\* commits.
ContentKept ==
    \A i \in onDisk :
        /\ Holding(i)
        /\ ~warned => content[i] = content[name]
=============================================================================
