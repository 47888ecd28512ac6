# scrollz in TLA+

Models, model-checking runs and machine-checked proofs for scrollz (crate
`crates/scrollz`), a FUSE file system that keeps append-heavy files in seekable
compressed archives, and the tools that put it in the place of a project
directory.  Paths below are relative to `src/crates/scrollz/src/`.

Contents: 1 the system · 2 the modules · 3 the runs and their bounds ·
4 fairness · 5 what is proved · 6 where code and text disagree · 7 what is
not modelled · 8 plan · 9 how to run it.

## 1. The system

A mount serves a tree of files.  The kernel calls the handlers of `rwfs.rs` on
several threads (`main.rs:700`); a handler takes the inode's lock, works on the
inode's *open tail block* (`core/wsession.rs`) or rewrites blocks
(`core/rmw.rs`), and these call a `Store`.  There are two stores in production:
`ShadowStore`, one archive file per logical file (`archive/`), and
`ContainerStore`, everything in one redb database.  Around the mount are offline
tools (ingest, seal, compact), the lifecycle of mounts over existing directories
(`enable/`) and the merge of what was written beside a mount (`reconcile/`).

| component | state it keeps | operations | interacts by | hard behaviour | correct when |
|---|---|---|---|---|---|
| archive (`archive/`, `blockio.rs`) | two superblock slots, append-only data area, index, tail journal | open, set_block, truncate, append_journal, commit, sync | `pwrite`, `fsync`; readers open the same file without a lock | crash between any two writes, torn slots, partial writes, failed fsync, retry after each | the last acknowledged version survives; the file always opens; what a slot reaches is never overwritten; a call is atomic |
| open tail (`core/wsession.rs`) | per inode: block number, plain bytes, size, journaled length | write_at, truncate, seal, materialize, refill, forget | under the inode's write lock; calls Store | journaled length against the journal; tail against index and session; failure half-way | reads give the POSIX content; fsync covers it; a crash loses a suffix only |
| block rewriting (`core/rmw.rs`) | none | write_at, truncate | block_geometry, get_block, put_block, truncate_blocks | block boundaries, holes, shrinking and growing | same |
| ShadowStore (`store/shadow.rs`) | per inode: active and flushing write session, cached reader, epoch; inode map; the backing tree | put_block, truncate_blocks, set_head_cache, get_block, getattr, fsync, append_tail, seal_tail_block, release, namespace | drives the archive; shared by all handlers | a commit beside new writes, a reader opened before a commit, renames under open numbers | reads see the newest write; a failed commit loses nothing |
| ContainerStore (`store/container.rs`) | redb tables, active and flushing buffers, next inode number | the same, all inodes in one transaction | `inner`, `commit_lock`, the redb writer | commits beside writes, reads, unlinks and setattr; locks taken in each other | an atomic write-back store; no orphan blocks; fsync durable; no circle of locks |
| handlers (`rwfs.rs`) | lock table, block cache, kernel notifier | one per FUSE call | inode locks, Store, `inval_inode` | eviction of a lock in use, a cache fill racing an invalidation, calling into the kernel, which may fail | one lock per inode; no stale block cached; every call answered |
| block cache (`core/blockcache.rs`) | decompressed blocks, bytes in use | get, insert, invalidate | called from read and write | insert after invalidate, capacity | never serves a block older than the last write |
| store lock (`store/lock.rs`) | a lock file | acquire, retry, release | flock | two daemons; a rewrite beside one | at most one holder |
| seal, compact (`seal.rs`, `compact.rs`) | temporary file | rewrite, fsync, rename, fsync of the directory | file system | crash around the rename, a directory that cannot be synced | old or new archive, complete |
| ingest (`ingest.rs`) | – | build archives from a plain tree | file system | crash half-way | source untouched until complete |
| lifecycle (`enable/`) | orig, mountpoint, backing, sidecar, pid file, unit | apply, restore, remount, compact, seal, reingest, purge, umount, autostart | rename, mount, systemd, the daemon | kill or power loss between steps; a daemon that lingers or returns | nothing written is lost; a mount shows all of it |
| reconcile (`reconcile/`) | generations of a stash, quarantine, marker, lock | reconcile, dry run, undo | file system, the archives | cut short, run again, two at once, writers and mounts beside it | no fall-through record is lost; undo restores; nothing half-rewritten is mounted |
| passthrough (`passthrough.rs`) | table of inode numbers, handles | one per FUSE call | system calls on a backing directory | forgets racing lookups, renames | a number stays valid while the kernel knows it |
| codec, metrics, terminal interface, fixtures | – | – | – | none, or only I/O | – |

`PROJECT.json` lists for each component whether it is modelled, and every hazard
found in the code with its line and the properties that watch it.

## 2. The modules

Each module is one component at the grain at which it interleaves or crashes;
what a neighbouring module establishes is one step here.  Archive commits are
many steps in `ArchiveCommit` and one in `OpenTail`, `ShadowStore` and
`Rewrite`; the daemon is many steps in `LockTable` and one process in
`Lifecycle`.

Several modules keep a *workload* (or *mode*) as a variable that `Init` chooses
and nothing changes: which calls users make, which faults occur, how the system
is configured.  One run then covers several narrow but deep settings whose
product would be out of reach.

### ArchiveCommit, DurableFile, ArchiveVersion

`ArchiveCommit` is the commit protocol of one archive file.  The file exists
twice: `cslot`, `cdata`, `ceof` as the page cache has it, `sslot`, `sdata`,
`seof` as it is on stable storage.  A cell of the data area is what one write
leaves there: a block, a journal record, an index or junk.  A step is one
`write_at` or one `sync` of `ArchiveUpdater`; `pc` is the next one, `up` the
updater's fields, `call` the call of ShadowStore in progress.

| action | code |
|---|---|
| `AppendTail`, `SealTailBlock`, `CommitSession` | the three callers in `store/shadow.rs`, each opening a fresh updater (`OpenUpdater`) |
| `WriteGapBlock`, `WriteBlock`, `WriteIndex` | `set_block`, the index write of `commit` |
| `CopyJournal`, `WriteRecord` | `append_journal`: when the committed records no longer end at the end of file they are copied there first |
| `Barrier1`, `WriteSuperBlock`, `Barrier2`, `FinalSync`, `SyncFile` | `commit`, `flip_active`, `commit_journal`, `sync` |
| `WriteError`, `SuperBlockError`, `SyncError` | every `?` on I/O; a failing write may leave part of its cells |
| `Crash` | the machine stops: any subset of the dirty cells is kept, a dirty slot is old, new or torn, the length is anything between durable and cached |

Opening (`Active`, `Valid`) validates slot, index and journal and takes the
usable slot of highest number.  `FailedSyncDropsDirty` says whether a failed
fsync marks its pages clean, which kernels differ in.

`DurableFile` is the promise: a file replaced one version at a time, where the
version readers see may be one ahead of the durable one, and `Ok` means equal.
`ArchiveCommit` implements it by mapping `volatile` to what an open of the
cached file yields and `persistent` to what an open of the durable one yields.
`ArchiveVersion` holds the effect of one commit on the blocks.

### OpenTail

The whole write path of one regular file: handlers of `rwfs.rs` over the tail
buffer, over read-modify-write, over the store's session, over an archive whose
commits are atomic, which is what `ArchiveCommit` establishes.  Bytes are
modelled: `tail.plain` is the buffer, `sess` the active session, `disk` the
archive an open finds, `stable` what every crash preserves, `seen` the version
behind the cached reader.  A handler runs under the inode's lock from `Start…`
to `Done`; its steps are the store calls, so an error or a crash can fall
between them.  `mode` is the mount and its workload: chunk size, tail buffer or
`--no-tail-buffer`, tail journal (ShadowStore) or none, calls and failures.

| action | code |
|---|---|
| `StartAppend`, `FillTail`, `SealTail` | `write_at_locked`, `append_into_tail`, `materialize` |
| `StartWrite`, `ApplyWrite` | the same for writes elsewhere: materialize, `rmw::write_at`, refill |
| `StartTruncate`, `ApplyTruncate` | `truncate_locked`, `rmw::truncate` |
| `StartSync`, `JournalTail`, `CommitStore` | `flush`, `fsync`, `release`, `forget`: `seal_locked`, then `commit_session` |
| `Crash` | the machine or the daemon stops and the file is mounted again |

`file` is the POSIX content and `floor` the prefix a successful fsync promised;
both are ghosts the code does not have.  A crash of the daemon alone is the case
where the page cache survives, `v = disk`.

### ContainerBuffer, WriteBackStore

`ContainerBuffer` is `ContainerStore` under concurrent handlers.  `rows` and
`stored` are the tables of redb, `active` and `flushing` the two buffers,
`writing` the copy `flush_to_redb` works on, `committer` the holder of
`commit_lock`, `removing` the unlink inside its redb transaction, `call` the
handler holding each inode's lock, `chmod` a setattr of attributes, which takes
none.  A step is one critical section of `inner` or one redb transaction.  Sizes
are counted in blocks, a block is one value; a directory entry comes and goes
with its row, as in the code's transactions.

| action | code |
|---|---|
| `StartWrite`, `FindSize`, `WritePut` | `rmw::write_at`: `block_geometry` reads the row, then the buffers; one `put_block` a block |
| `StartTruncate`, `TruncatePut`, `TruncateDrop` | `rmw::truncate`: the cut block, then `truncate_blocks` |
| `ReadBuffers`, `ReadStored` | `get_block`: the buffers, then redb |
| `SwapBuffers`, `CopyFlushing`, `FlushToRedb`, `FlushFails`, `ClearFlushing` | `commit_pending`, `flush_to_redb`, `merge_from_flushing` |
| `UnlinkBegin`, `UnlinkCommit`, `UnlinkFails`, `UnlinkEnd`, `Replace` | `unlink`: clear, commit, clear again; `rename` over a file |
| `ChmodRow`, `ChmodSize`, `ChmodWrite` | `setattr` of mode, owner or times in `rwfs.rs` and in the store |
| `Create`, `Crash` | inode numbers: given out in turn, and again from the highest row after a restart |

`WriteBackStore` is the promise of both stores: changes are visible at once and
become durable in batches, each of them everything visible at one instant; a
failed batch changes nothing visible; a removal is final.  ContainerBuffer's
mapping reads the batch in flight from `flushing` until it is copied and from
the copy until it lands, and shows a file as gone as soon as its unlink has
cleared the buffers.

### ContainerLocks

Who waits for whom in that store, for handlers of several inodes.  A call is a
sequence of steps that take and drop guards: of the inode's lock, of
`commit_lock`, of redb's only writer, of `inner` and of the next inode number;
`MayEnd` marks where it may return early, with an error or with nothing to do,
and drops all it holds.  `Calls` has the sequences, as the handlers of `rwfs.rs`
and the store make them up: `CommitPending` (`commit_pending`, `flush_to_redb`),
`RemoveRows` (`unlink`), `Transaction` (`create`, `rename`, `setattr`),
`TailSize`, `ForgetTail`, `Fsync`.  `MayTake` is a parking_lot lock, whose waiting
writers keep new readers out.  ContainerBuffer has what happens under the locks.

### ShadowStore

`store/shadow.rs` with everything it shares between threads.  `tree` and `disk`
are the backing directory and each archive's committed version, `by_ino` the
inode map, `active` and `flushing` the session buffers, `readers` the cached
readers, `fresh[t]` whether no epoch was counted up since thread `t` looked at
it, `committer` the commit lock, `call` what each thread is doing.  A block is
one value; the copy of the head of block 0 is kept apart, as in the code.

| action | code |
|---|---|
| `StartGet`, `StartHead`, `LookupReader`, `Resolve`, `Open`, `Fill` | `get_block`, `read_head_cache` and `cached_reader`: cache, epoch, path, archive, cache again |
| `StartStat`, `AttrFromMeta`, `ReadFooterGeometry` | `getattr_ino`: the sessions' size, then the archive's |
| `StartPut`, `StartCut`, `WithSession`, `FirstChange` | `put_block`, `truncate_blocks`, `set_head_cache` over `with_session` |
| `Swap`, `Publish`, `FailCommit`, `BumpEpoch`, `EvictReader`, `EndCommit` | `commit_session`, `commit_with_updater`, `merge_from_flushing`, `invalidate_reader` |
| `Released` | `release` |
| `Lookup`, `Create`, `Unlink`, `RenameFile`, `RenameMap`, `RenameDir`, `Mkdir`, `Rmdir` | the namespace: the call into the file system, then the tables |
| `Crash` | the daemon is killed and the tree mounted again |

`locked` says whether callers hold the inode's lock against each other, as the
handlers do, or only what the store itself promises is relied on.  Each file is
mapped to a `WriteBackStore` of its own.

### LockTable

The handlers as concurrent requests: `inodes` is the lock table, `ref` and
`held` the `Arc` and the guard of each worker, `cache` the block cache, and
`looked`, `page`, `pinned` the kernel's inode, its page and the lock on it.  One
block stands for a file's content, as a version number.

| action | code |
|---|---|
| `LockFor`, `Acquire`, `Unlock`, `Evict` | `lock_for`, `RwLock::read`/`write`, `evict_lock` |
| `ReadCache`, `ReadStore`, `Insert` | `read_range`, `read_block_cached`, `BlockCache::insert` |
| `Invalidate`, `Change`, `Commit`, `DropTail` | the bodies of write, setattr, fsync, flush, unlink, forget |
| `ReplySync`, `ReplyUntold`, `ReplyFailed` | `inval_inode` after the lock is dropped, then the reply; no notifier yet, or a notification that fails, which is logged and answered with Ok; a commit that failed |
| `Send`, `Fault`, `Serve`, `ReplyRead`, `ReplyLookup`, `ReplyOther` | the kernel's side, by what FUSE guarantees |

### Rewrite

One file of a shadow backing between runs of the daemon, in bytes: `Committed`
is whatever a daemon can have made of a content (blocks, journal, hole), `Sealed`
and `Compacted` what `seal.rs` and `compact.rs` make of an archive.  `WriteTemp`,
`SyncTemp`, `RenameTemp`, `FsyncDir`, `DropTemp`, `Fail` are the steps of
`seal_file` and `compact_file`, `Crash` loses names that were not synced and
tears files that were not.  `onDisk` is what the name may stand for after a crash:
the rename adds the new inode, and `FsyncDir` leaves it alone if the directory's
fsync fails, which is only a warning; later commits then go to an inode that a
crash may take away (`MayCommit` bounds them to one, which appends).

### Lifecycle

The commands of `enable/` on one project, step by step, as system calls: `at`
maps the names (mountpoint `mp`, `orig`, the backings, reingest's two, the
sidecar) to trees of records, `safeAt` is what a power loss preserves of the
names.  Daemons are processes with steps of their own.

| action | code |
|---|---|
| `BeginApply`, `ApplyMove`, `CopyInto`, `ApplyCommit`, `Rollback` | `apply`, `apply_inner`, `rollback_to_plain`, `ingest_tree` |
| `Restore`, `Remount`, `Purge`, `Umount`, `InstallAutostart` | `restore`, `remount`, `remount_all`, `purge`, `run_umount`, `autostart install` |
| `Maintain`, `Lock` | `compact`, `seal` on a project, and the commands `compact` and `seal` on a path |
| `Reingest`, `Swap` | `reingest` |
| `UnmountAuto`, `UnmountClean`, `WaitExit`, `Spawn`, `Await`, `AfterMount` | `Mounter::unmount`, `force_unmount`, `wait_daemon_exit`, `Mounter::spawn`, of the real and of the systemd mounter |
| `Open`, `Serve`, `Leave`, `Restart` | `run_mount`, `run_mount_managed`, `serve_rw`, and systemd's restart |
| `Write`, `LateWrite`, `OpenSession`, `SessionWrite` | users, by path or through files already open |
| `Kill`, `Die`, `PowerLoss` | a command is killed, a daemon crashes, the machine stops |

Decisions that bound it: one command runs at a time (users do not start two;
the daemons and systemd run beside it), and finds no daemon in the milliseconds
of its start; a user's write makes its record and the path to it durable; each
directory's names revert together at a power loss; the real mounter's timeout
ends the daemon and waits for it, `systemctl start` blocks; under systemd all
daemons are the unit's; the container's transactions are durable as they are
copied; a late write counts only while the sidecar still names its backing.

### Reconcile

`reconcile` and its undo, one file-system effect a step.  A file is the set of
its records, and `session_merge` their union; `kinds` gives each file its route
(`apply_entry` decides by path: session, subagent, memory, other), and `large`
those above `MAX_MERGE_FILE_BYTES`, of which a snapshot has a copy in the stash but
no bytes in memory (`Bytes`).

The command looks once whether the project is mounted, before its first step.
What comes after works on the mountpoint's path: on the underlay, or, if a mount
has come in between, on the backing through it (`Mountpoint`, `LiveText`).  With
`"race"` in a workload a mount may come there; `through` says in a generation
whether its snapshot was read through one.  Such a run finds what the mount serves
as fall-through; it cannot replace an archive, whose lock the daemon has, and ends
there with an error; and what it unlinks is the backing's file (`FinishDelete`).
`halved` has the files whose archive is behind `orig` or gone for either reason, until
they are ingested again.

| action | code |
|---|---|
| `CheckPreconditions`, `SnapshotUnderlay`, `Preview`, `PlanEntries`, `Entry` | `check_preconditions`, `snapshot_underlay`, `--dry-run`, `plan_entries` with `recommend`, the loop of `reconcile` with the user's answer |
| `StashPreimage`, `WriteOrig`, `ReingestOneFile`, `QuarantineReuse`, `FinishDelete` | `apply_entry`, `reingest_one_file`, `quarantine_reuse`, `finish_delete` with the delete gate |
| `RestoreMemory`, `PlaceRead`, `PlaceWrite`, `Relocate` | `passthrough_restore_memory`, `place_memory_files`, `relocate_dir` |
| `Prune`, `WriteManifest`, `SetReconciling` | pruning, manifest, marker |
| `UndoCheck`, `AbortIfMounted`, `Reverse`, `RestoreUnderlay`, `WriteUndone` | `reconcile_undo` |
| `Mount`, `Write`, `Link`, `Crash` | `ensure_mountable`, writers in the mount, in the underlay and in the target of the memory link, a kill or an error |

### Passthrough

`InodeTable` (`by_ino`, `by_path`, counts) and the handles, with requests that
resolve a path under the table's lock, make their system call without it and
enter the result under it again; a reply reaches the kernel later, and a
`Forget` may overtake it.  `known` is what the kernel counts.  Directory and file
locks of the kernel are modelled (`KernelLock`, `FileLock`), since the code relies
on them: a rmdir also holds the directory it removes, so no request has resolved
that directory's path and not yet used it when the path goes.

### Proof and MC modules

`ArchiveCommitProofs`, `OpenTailProofs`, `ShadowStoreProofs`, `ContainerBufferProofs`,
`LockTableProofs`, `LifecycleProofs`, `ReconcileProofs` and `PassthroughProofs` hold
the theorems (section 5).  The `MC…` modules name the small sets, the workloads and
the symmetry the configurations use.  Operators marked `mutant` are the code with
one plausible mistake each; nothing refers to them, they can be put in place of
the definition that follows to see a property fail.

## 3. The runs

Every configuration is `<run>.cfg`.

| run | question | bounds | result |
|---|---|---|---|
| ArchiveCommit | do versions survive and does the archive stay atomic with errors and crashes everywhere? | block 1 (so a gap block is needed), one value, one delta, 5 cells | 121 403 states, holds |
| OpenTail | does a file read back as POSIX says and stay durable, whichever way it is written? | three modes: `Log` (chunks of 3, 8 bytes, writes up to 4, two byte values), `Mixed` (chunks of 2, 5 bytes, an ingested file), `Rmw` (chunks of 2, 3 bytes, commits failing at three places) | 1 391 542 states, holds |
| LockTable | do locks, block cache, page cache and kernel calls work together? | one inode, two workers, two locks, two versions, one sync at a time | 78 911 states, holds |
| ShadowStore | is each archive a current, atomic write-back file under threads? | two files of two blocks, two directories, three numbers, two threads, five workloads | 281 692 states, holds |
| ContainerBuffer | is the double buffer an atomic write-back store? | a file of 2 blocks and one of 1, failing commits, restarts | 855 902 states, holds |
| ContainerOneFile | orphans under every operation and failure | one file of 2 blocks | 63 196 states, holds |
| ContainerLocks | do handlers of several inodes ever wait in a circle? | three threads with a call each, two inodes, nine calls | 160 791 states, holds |
| Rewrite | does a rewrite keep the content? | 6 bytes, chunks of 1 to 3, three inodes, one commit that a crash may take back | 160 998 states, holds |
| Lifecycle | is anything lost, or served in part, over the life of a project? | two records, five trees, two daemons, one command at a time, twelve workloads | 652 966 states, holds |
| Reconcile | is anything lost, hidden or not undone by runs cut short, repeated, at once? | two files, three records, two processes, three generations, or two where a mount races, six workloads | 1 610 647 states, holds |
| ReconcileMounted | what becomes of writes through the mount? | one workload of the above | violated |
| Passthrough | do numbers stay valid and lead to their objects? | two names, depth 2, three objects, four numbers, two threads, four workloads | 422 303 states, holds |

Why these bounds show the cases that matter:

* *ArchiveCommit*: 5 cells hold the first index and four more writes: a commit, a
  failed one and a second commit, or a journal whose records must be copied past
  what a failed call left.  Both slots are written and torn.  What further cells
  add is covered by the proofs, which have no bound.
* *OpenTail*: with chunks of 3 a partly journaled block exists, and a write of 4
  can fill one block and seal the next.  Chunks of 2 put every offset on, before
  or after a boundary; the ingested file has a full block and a short one.  The
  journaling mode is limited to appends and leaves out failing seals of full
  blocks; the others include everything but sparse writes that skip a short last
  block.  Section 6 says what happens with those.  `Rmw`, which has commits
  failing in three places, leaves out `release` and `forget` (without a tail
  buffer they do what fsync does) and extensions, which `Mixed` has.
* *LockTable*: an eviction needs one handler that evicts and one that has just
  fetched the lock; both locks of the table's entry exist then.  One sync at a
  time, since with as many as workers every worker can be in the kernel (section
  6).  Three workers were checked for the invariants, which are proved for any
  number.
* *ShadowStore*: `Data` has two threads with a read, a write and a commit in each
  other's steps without the inode's lock; `Sizes` adds a third change, needed for
  a failed commit to merge a truncation under a newer one and a write; `Removal`
  and `Moves` the namespace; `Directories` renames of directories while nothing
  of their files is held in memory.  A file grows last unless `"hole"` is among
  the calls (section 6).
* *ContainerBuffer*: two inodes are needed because a handler holds its own
  inode's lock, so only an fsync of *another* inode runs beside it; two blocks
  make one write two `put_block`s, between which a commit can fall.  Truncations
  are to zero here, for the reason in section 6.  *ContainerOneFile* has all
  operations; its one inode still has unlink, rename and setattr, which take no
  inode lock, beside its handlers.
* *ContainerLocks*: a circle of calls needs as many threads as locks that wait for
  each other; three threads can hold an inode's lock, `commit_lock` and redb's
  writer at once, and two of them have an inode in common.  A call for each thread
  is enough: a lock remembers nothing of the calls before.
* *Rewrite*: 6 bytes are two blocks of the largest size, and a journal of any
  length is possible at every other; a name, a temporary file and one left over
  from a crash, or an inode that a crash brings back, make three.
* *Lifecycle*: one record that apply moves and one written at any moment after;
  two daemons so that an old one lingers beside a new one; five trees are the
  plain one, a mountpoint, a backing, its replacement and its backup.  The
  workloads cover each command under kills, daemon crashes and power losses, by
  hand and under systemd, with both backends.
* *Reconcile*: of two files one is routed one way, one another; three records
  give a base, a record that fell through and one written meanwhile; a third
  generation follows a run cut short and its undo.  Where a mount may come after
  the command's look at it there are two generations: the run that reads the mount
  and the one that finds what it left.  The files of memory directories are in a
  workload without that race: through a mount a run would meet the same target
  that users of the mount write to (section 6).
* *Passthrough*: with two lookups of a number a forget of all and of one differ;
  depth 2 has a rename between directories.

CHECK_DEADLOCK is FALSE in LockTable, ShadowStore, ContainerLocks and Lifecycle,
where the bounds end the behaviour (no version, change, call or record is left) or,
in Lifecycle, nothing may be left for a user to do; in LockTable
`EveryCallReturns` and in ContainerLocks `NoCircle` say what the deadlock check would.

The properties:

| property | says |
|---|---|
| `AckedSurvives`, `AlwaysOpenable`, `ReachableNeverOverwritten` | the acknowledged version survives any crash; every open succeeds; no step changes what a slot reaches |
| `ImplementsDurableFile`, `ImplementsWriteBack` (both stores) | the refinements |
| `ReadBack` | between handlers, tail buffer, session and archive together give the POSIX content |
| `FsyncDurable` (OpenTail, ContainerBuffer) | what a successful fsync covered is what a restart finds |
| `NothingInvented` | appending, a crash serves a prefix of what was written, also when commits fail before they publish |
| `JournalMatchesTail` | the journal is the part of the tail counted as journaled |
| `WriterAlone` | two handlers of one inode never have two locks, whatever was evicted |
| `NoStaleBlock` | the block cache holds the current version of a block or none |
| `SyncedPagesFresh` | once fsync has told the kernel, no older page is left there |
| `EveryCallReturns` | no circle of locks through the kernel |
| `ViewCurrent` | who looks a path up reads what the calls on that file wrote, after commits, failures and renames |
| `ReadsCurrent` | a read of several steps returns what its block held, getattr a size the file had, at some moment since it began |
| `ReadThrough` | a `get_block` that has left the buffers' lock still returns the current block |
| `NoOrphans` | redb has no block of an inode without a row |
| `NoCircle` | while calls are under way one of them can go on |
| `ContentKept` | at every step of a rewrite, and after a crash there, the name stands for a complete archive of the content; of the content before the rewrite, if the directory could not be synced |
| `NothingLost` | every record written is under one of the project's names |
| `MountShowsAll` | a mount shows what was applied and all that was written through it |
| `RewriteAlone` | no offline rewrite overlaps a daemon that has the backing open, or another rewrite of it |
| `FallthroughKept` | a record written beside the mount is in the underlay, orig, quarantine or its memory target |
| `MergedIsServed` | what can be mounted serves all orig has |
| `RewriteUnmounted` | under a mount neither undo rewrites the project nor a run that has read the underlay |
| `UndoRestores` | a completed undo leaves orig and the underlay as they were before the run |
| `KernelKnown` | a number the kernel counts is in the table, counted as often |
| `NumberServes` | a number leads to the object it was given for, and setattr changes no other |

## 4. Fairness

One run needs it.  `FairSpec` of LockTable (`EveryCallReturns`) assumes weak
fairness of each worker's own steps, and strong fairness of `Acquire` (the inode's
lock is an eventually fair parking_lot lock), `ReplySync` and `Serve` (the kernel
wakes those that wait for a page, and hands out queued requests, in the order they
came).  No worker need ever take a new request, and `ReplyUntold` has no fairness:
that a notification fails is not what lets a sync return.

ContainerLocks needs none: each step leaves less to do, so `NoCircle`, an
invariant, is enough for every call to return once threads are scheduled.

## 5. What is proved

`ArchiveCommitProofs`, for any blocks, contents and number of cells:

| theorem | assumes | states |
|---|---|---|
| `TypeCorrect` | – | `Spec => []TypeOK` |
| `CommitsAreDurable` | `~FailedSyncDropsDirty` | `Spec => []AckedSurvives` |
| `ArchiveOpens` | same | `Spec => []AlwaysOpenable` |
| `SlotsKeepTheirCells` | same | `Spec => ReachableNeverOverwritten` |
| `ArchiveImplementsDurableFile` | same | `Spec => ImplementsDurableFile` |

The safety theorems rest on the invariant `TypeOK /\ UpdaterOK /\ IInv`.
`AckedSurvives` is about stable storage only, and nothing in it says why the next
step keeps it; the invariant adds the reasons:

* `Agree`, `SlotsValid`: stable storage is a prefix of the page cache, and every
  slot, cached or durable, needs only that prefix, so neither a sync nor a crash
  can take away what a slot points to.
* `AckedOK`: one slot (`Anchor`) is clean and at least as new as the last
  acknowledged version; equal numbers mean equal slots, and a slot with the
  acknowledged number describes the acknowledged version.
* `SyncedOK`: before a superblock is written everything it points to is durable
  (this is what the first barrier is for).
* `TargetOK`: the slot about to be written is not the active one.
* `UpdaterOK`: the updater's index and journal lie inside the file.

Each kind of step has a lemma (`SlotsKeepMeaning` for those that only append,
`SyncSafe`, `SuperBlockSafe`, `SyncErrorSafe`, `CrashSafe`); `StepSafe` and
`Inductive` join them.  The assumption is needed: with `FailedSyncDropsDirty`
TRUE the run ArchiveCommit violates the properties.

The refinement is proved from the invariant `RefInv`, which adds to the one above:

* `Progress`: what the updater has written so far, with the dirty blocks it has left
  laid over it (`Overlay`), is the version the call must produce (`Goal`); so when the
  superblock is written, readers see that version at once.  Its lemmas say what one
  block, one gap block and one journal record contribute.
* `DirtyBehind`: while a slot is not on stable storage, the other slot is, and is
  the newest there; so a sync shows one new version, and a crash goes back to the
  version before or stays.
* `CallOK`: which call is at which step.

`StepIsStep` goes through the actions: the superblock write is the abstract
`Publish`, the sync after it `Persist`, a failure `Fail`, a crash `Crash`, and every
other step changes nothing an open of the file could see (`AppendIsSilent`).

`OpenTailProofs`, for any chunk size, contents, lengths of calls and archives to start
from:

| theorem | assumes | states |
|---|---|---|
| `TypeCorrect` | `Supported(Modes)` | `Spec => []TypeOK` |
| `ReadsWhatWasWritten` | same | `Spec => []ReadBack` |
| `SyncedIsDurable` | same | `Spec => []FsyncDurable` |
| `CrashServesPrefix` | same | `Spec => []NothingInvented` |
| `JournalIsTail` | same | `Spec => []JournalMatchesTail` |

`Supported` is on the mounts.  It leaves out what section 6 shows the code to get
wrong: writes that skip a short last block; where a tail journal is written, calls
other than appends and syncs, failures after publication and of a full tail's seal,
and files whose last block is short.  Without a journal, with the tail buffer
or not, every call and every failure is in.  TLC evaluates it for the modes of the
run (`ModesSupported` in MCOpenTail).  So `CrashServesPrefix` speaks, for a store with
a tail journal, of commits that fail before they publish; one that fails after is
repeated by the code (section 6).

One invariant, `Inv`, gives all five.  It is about chunks of the file: block `b` *holds*
chunk `i` of content `f` (`HoldsTo`) if it has the chunk's bytes, or is missing and
they are zeros.

* `StoreInv`: session over archive holds a prefix of the file, over the version the
  cached reader has and over the one an open finds: the two differ after a commit
  that failed late, and the next commit overlays the second.
* `TailInv`: an open tail is the end of the file from its chunk on, and the store has all
  before that chunk (it may have more: what was loaded or journaled stays there).
* `JournalInv`: on a journaling mount the open tail stands just past the index and the
  journal is its first `journaled` bytes.
* `DurableInv`: `disk`, `stable` and `seen` are well-formed (`VersionOK`), each the
  content of some file (`Is`); for the first two that one begins with `floor`, and, of a
  file only appended to, is a prefix of `file`.
* `StepInv`: what the handler's next step relies on: room for what is left to append,
  a tail that is full or must be sealed before a change, no tail during the change, and
  none but a journaled one after `seal_locked`.

The lemmas below it are about operators.  `PutShows`, `TruncateShows`: what blocks put
or dropped do to what a session shows.  `CommitIs`: the overlay of a session is what the
session showed, and goes on showing it if the call failed after that (its last block may
be short only if it is the file's last).  `NewBlockIs`, `KeptIs`, `RewrittenIs`:
rewriting the blocks of `rmw::write_at` gives the file with the data written; `CutIs`,
`GrownIs`: `rmw::truncate` the file resized.  `SealIs`, `LoadedTailIs`: a tail becomes a
block and a block a tail without changing the file.  `ReadIs`: `read_range` over blocks
that hold their chunks returns the content and never `Bad`.  Each action then has a
lemma (`StartAppendStep` to `CrashStep`), joined in `NextInv`.

`LockTableProofs`, for any number of inodes, workers, locks, versions and syncs:

| theorem | states | from |
|---|---|---|
| `WritersAreAlone` | `Spec => []WriterAlone` | `LockInv` |
| `CacheIsCurrent` | `Spec => []NoStaleBlock` | `LockInv`, `CacheInv` |
| `SyncedPagesAreFresh` | `Spec => []SyncedPagesFresh` | `LockInv`, `CacheInv`, `PageInv` |
| `TypeCorrect` | `Spec => []TypeOK` | `LockInv`, `CacheInv`, `DataTypes`, `Room` |

Each invariant adds what the one before does not know.  `LockInv`: an `Arc` in
use is the one in the table (`InTable`), which is why counting references under
the shard's lock makes eviction safe, and one lock has a writer or readers
(`Excluded`).  `CacheInv`: a read about to fill the cache has the current block,
a writer has emptied it (`FillsCurrent`), and a removed inode's block stays only
until the removal, which is still to come, takes the lock.  `PageInv`: the kernel
has one read of a page under way (`OneRead`), and a block on its way there is no
older than the last fsync that got its notification through (`BlocksFresh`),
because that waits for the read before it returns.  For the types, `Room` counts
the writes under way: the kernel is modelled to send one only where a version is
left for it.

`ContainerBufferProofs`, for any number of inodes, blocks and handlers:

| theorem | assumes | states |
|---|---|---|
| `TypeCorrect` | – | `Spec => []TypeOK` |
| `OrphansNeverStored` | – | `Spec => []NoOrphans` |
| `ReadsThrough` | – | `Spec => []ReadThrough` |
| `SyncedIsDurable` | `"chmod" \notin Ops` | `Spec => []FsyncDurable` |
| `BufferImplementsWriteBack` | see below | `Spec => ImplementsWriteBack` |

`NoOrphans` alone is not inductive, because a setattr in progress might write a
missing size into a row; `ChmodHasSize` excludes that, `RowsOK` says the tables are
functions on the inodes.  `ReadsThrough` needs only that a read which found nothing
in the buffers still finds nothing there when it gets to redb, if its inode was not
removed: the inode's lock keeps writers out, and a swap or a merge moves what other
inodes have pending, never what this one has not.  `SyncedIsDurable` is about the inodes that were
synced; its invariant `SyncInv` says what is true of a commit: one fsync commits at a
time and its inode has nothing pending (`OneCommitter`, `CommitterWaits`); the copy
being written is the batch, but for what an unlink has cleared (`BatchKept`); what was
written changes nothing if it is read over redb again (`BatchLanded`); and an inode
number not given out has nothing anywhere (`Unused`).  `PromiseKept` is then
inductive: a synced inode is in redb and in no buffer.  Where attributes are set beside
writes this does not hold (section 6), hence the assumption.

`BufferImplementsWriteBack` shows each action of ContainerBuffer as one of
WriteBackStore or a stutter, under the mapping of section 2.  It assumes that
truncations to a size, extensions and setattr of attributes are not among `Ops`, and
`"unlink" \notin Faults`: each of them breaks the refinement in the code (section
6).  To `SyncInv` its invariant `RefInv` adds that truncations are to zero, so that
merging a failed batch under a newer one loses none of them (`KeepsAllOrNone`), and
that what is written is what readers see of every file that stays (`BatchWhole`).

`ShadowStoreProofs`, for any number of files, numbers, threads, directories, blocks
and workloads:

| theorem | assumes | states |
|---|---|---|
| `TypeCorrect` | – | `Spec => []TypeOK` |
| `ViewsAreCurrent` | `Orderly(Workloads)` | `Spec => []ViewCurrent` |
| `ShadowImplementsWriteBack` | `Orderly(Workloads)` | `Spec => ImplementsWriteBack` |
| `ReadsAreCurrent` | the same, `ReadInPlace(Workloads)` | `Spec => []ReadsCurrent` |

`Orderly` is on the workloads: where files are renamed, or something is written past
a hole, the calls on a number exclude each other, as the handlers' lock of the inode
makes them; where directories move nothing is written.  `ReadInPlace`: no file moves
while reads of several steps are under way.  TLC evaluates both for all
workloads of the run (`WorkloadsOrderly` in MCShadowStore); `MCMoveDir` and a hole
without the lock are not orderly, `MCReadMoved` does not read in place, and section 6
tells what the code does there.

* `LockInv`, with the types: who commits or renames holds the commit lock, and
  `flushing` is full exactly while its inode commits.
* `NameInv`: a file has one path and one number, and the number has that path; while
  a rename has moved the file and not yet the tables, all but the two paths agree.
* `CallInv`: what a change has learnt of the file's size (`Known`) is still so when
  it comes to its session, since one change of a number is under way at a time; and a
  path it looked up is still that of its number.
* `SessionInv`: a session fits the size it lies over, that of `flushing` or of the
  archive (`SessionOver`), and once its commit has landed the archive holds all it
  shows (`Holds`), so that its end changes nothing.  Without the inode's lock a
  session that shows a hole is the last change (`Holed`): a hole is what
  `merge_from_flushing` gets wrong.
* `DataInv`: sessions over the archive are what the calls have written.  `ViewCurrent`
  is its reading along paths.  A commit that lands is `CommittedHolds`, one that
  fails `MergedOver`, a change `SeenByChanged`.
* Where directories move none of this holds of names; there `StillInv` says that no
  session exists and the archives are what was written.

For the refinement `ViewIs` says that the mapped view is `latest`, `BatchIs` that the
mapped batch is what the one commit under way would make of its archive; in `Swap`
this is the view, whence `Take`.

`ReadsAreCurrent` adds `ReadInv`, about readers and heads, which the view does not
depend on:

* `CacheInv`: a cached reader, and one about to be cached, is of the archive as it is,
  but between a commit's write and its eviction.  There it may be older (`Older`): of
  the blocks the session in `flushing` does not show it still has the current ones,
  and a read, which looks at the session first, asks it for no others.  That the epoch is
  bumped before the reader is evicted is what keeps a reader opened before the
  write from being cached after it (`fresh`).
* `HeadInv`: the copy of a head is block 0 in every archive and reader, and what a
  session will set it to is block 0 of what it leaves; a session that leaves the copy
  alone neither writes block 0 nor cuts to nothing.  Merging a failed session under a
  newer one keeps this (`HeadMerged`).
* `SeenInv`: everything a read may still come to is in `seen`: its block by the
  calls, in the archive, in `flushing` and in each reader it can meet (`Offers`);
  for getattr the sizes (`OffersSize`).  A step moves these only along (`Goes`): the
  session in `flushing` lands, the active one follows it, a reader that was opened is
  cached, the archive is opened.

`ReconcileProofs`, for any number of files, records, processes and generations:

| theorem | assumes | states |
|---|---|---|
| `TypeCorrect` | – | `Spec => []TypeOK` |
| `RewritesUnmounted` | `UndoAlone` | `Spec => []RewriteUnmounted` |
| `UndoGivesBack` | `UndoUndisturbed` | `Spec => UndoRestores` |
| `NothingLost` | `NoRaces`, `NoLargeSubagent` | `Spec => []FallthroughKept` |
| `MergesAreServed` | `CutShortOnly` | `Spec => []MergedIsServed` |

The assumptions are on the workloads, and all those of the run Reconcile fulfil
them.  `UndoAlone`: undo runs beside no other command, because the marker is
cleared before the reconcile lock is taken.  `UndoUndisturbed`: besides, nobody
writes to the underlay or the memory target meanwhile.  `NoRaces`: nobody writes to
what is being deleted, nor to the memory target from elsewhere, and undo is not
killed.  `NoLargeSubagent`: no subagent file is too large to be read.
`CutShortOnly`: where a run may be killed, a file that is no session is not written
again before it is merged (TLC refutes `MergedIsServed` otherwise), and undo runs
alone and to its end (the proof needs it; TLC finds no violation without).
Section 6 tells what the code does otherwise; reconcile itself may be
killed at every step, be repeated, run in several processes and find itself under a
mount: none of the five assumes `"race"` away.

* `BaseInv` (`TypeCorrect`): who is in a run holds the lock and works on the latest
  generation (`RunInv`); the files left to do, and the one in hand, are still in the
  underlay if that is what was read, with the plan that fits what orig has of them
  (`HandInv`).
* `MountInv`: a mounted project has an empty underlay.  A run that has read the
  underlay keeps each file there until its last step on it, so that no mount comes
  while it rewrites; undo relies on the marker, which it sets before it looks whether
  the project is mounted.
* `SettledInv` (`UndoGivesBack`): a manifest, or what a run would write into one now,
  describes orig against what it was before the run: a file is as it was, or its
  preimage is (`Settled`).  It holds of the latest generation only, and this is the
  one undo takes: every run begins a new one.  `UndoInv` follows undo through the
  manifest: the entries it has passed are as they were before the run.
* `LossInv` (`NothingLost`): a record is in one of the places `FallthroughKept`
  names, or in the snapshot of the undo that has just removed it there; quarantine
  holds copies of the snapshot; what a run is about to unlink, or has placed, is
  where it was to go (`PlacedInv`).  Each step that takes a record from a place is
  shown to leave it in another (`CopiesKept`).
* `ServedInv` (`MergesAreServed`): a file of orig is served by its archive, or a run is
  about to make the archive (`InIngest`), or one was cut short before that, and then
  the underlay and the snapshot of any run under way hold the file still (`Limbo`),
  so that the run merges it again.  Files a run has yet to delete only grow
  (`AheadKept`), what is ingested is the merge of the snapshot, and what is deleted is
  served (`IngestKept`).  A run that has read a mount found there what is served: its
  merge adds nothing to the archive that the archive has not, and what it deletes
  there is `halved`.  When the project can be mounted the underlay is empty, which
  excludes the two other cases.

`LifecycleProofs`, for any records, trees, daemons and workloads:

| theorem | assumes | states |
|---|---|---|
| `RewritesAreAlone` | – | `Spec => []RewriteAlone` |
| `TypeCorrect` | – | `Spec => []TypeOK` |
| `NothingIsLost` | `OneCommand`, `Supported(Workloads)` | `Spec => []NothingLost` |
| `MountsShowAll` | same | `Spec => [](Attended => MountShowsAll)` |

The first two are for any number of commands at the same time; TLC sees one only.

* `FlockInv`: a daemon that has its backing open and a command that rewrites one
  hold that backing's flock (`OpenLocked`, `RewriteLocked`), and no two of them hold
  the same (`Exclusive`).  Most steps begin no rewrite, open no backing and keep the
  flocks of those that have (`NoneTaken`); the two that take a flock, `Open` and
  `Lock`, are `OpenKept` and `LockKept`.  The argument needs neither the pid file nor
  `wait_daemon_exit`.
* `TypeInv`: the names lead to trees of their own, also as synced (`NamesOK`), and a
  command that spawns or rewrites has a backing (`CommandOK`).
* `LifeInv` is what keeps the records.  `DataOK`: everything written is under a
  name, reingest's copy has nothing the project has not, a program has only
  the plain project open.  `DurableOK`, where a power loss is possible: the
  projects' directory holds the same before and after it, and what is in a backing
  only is in one whose name and data are synced (`Kept`).  `CommandInv`: until apply
  writes the sidecar no daemon mounts and its backing holds copies only, so
  that a rollback may drop it.  `QuietOK`: where a power loss is possible a daemon
  runs, and systemd may start one, only when the sidecar and the backing it
  names are durable.  Every command step is shown to keep these (`StepKept`), by lemmas
  that say what renaming, dropping, copying and syncing do to the records.
* `ShowInv`, on top of `LifeInv`, is why a mount shows everything.  `ShowsOK`: the
  backing the sidecar names holds what users are owed, and a daemon that serves, or
  is about to, has that backing or one that is not there.  `CommandNames`: what a
  command has verified or synced before it goes on (apply and reingest that all of
  `orig` is in the new tree; apply, before it writes the sidecar, that a power loss
  will not take it back), and that whoever mounts does so with the
  backing the sidecar names.  `CommandDaemons`: while reingest exchanges the
  backing, and after a purge, no daemon serves one.  `DurableShows`: a power loss brings
  back no sidecar that was gone, and keeps all of a backing whose sidecar is settled.
* `Attended` is that reingest is not called under systemd, which could start a daemon
  between the two renames (section 6).  The workload that has both, without
  faults, is model-checked only.
* `OneCommand`: two commands may undo each other's names (apply renames what restore
  has just moved back); the code does not exclude them and users start one.
  `Supported` says which workloads survive a power loss: without purge, whose
  removal is never synced, without reingest, which syncs no directory, and without
  a kill between the sidecar's rename and its fsync.  Workloads without power losses are all
  supported.

`PassthroughProofs`, for any number of names, threads and inode numbers, and any
workload, AnyRename and Removed of section 6 included: `KernelNumbersKnown`
(`Spec => []KernelKnown`).  `TableInv` is about the table alone: `by_path` leads to
numbers of `by_ino` that have this path, also after a rename over an existing
name, so that forget, which takes one entry from each, leaves no path that leads
nowhere.  `Backed` compares the counts (0 for a number that is not in the table) with what
the kernel has been told and the replies on their way: `LookupOrInsert` counts before
the reply leaves, and forget takes away what the kernel has been told only.

`NumbersServe` (`Spec => []NumberServes`) needs workloads in which files are renamed,
onto names without a number, and no removed file has attributes set: `AnyRename` and
`Removed` of section 6 violate it.  `ServesInv` adds to the above:

* `TreeInv`, `PathInv`: what is in a directory is in the tree, no object is there
  twice, and `by_path` is the inverse of the paths in `by_ino`, the root's included.
* `ServedInv`: a number the kernel was told of, whose object is in the tree, has the
  object's path, except while a rename of it has moved the object and not yet the
  entry.
* `Fine`: what a request has resolved still holds.  Its directories are
  there; the object it is about to report is where it found it; a rename's target has
  no number yet; an attribute change has the path of its file.
* `Apart`: which requests the kernel's locks keep apart; `Fine` of one request
  survives the steps of another because of it (`TreeOthers`, `Elsewhere`: entries of
  two distinct directories are distinct paths).

The order in which the code works matters here: `rename_path` and
`lookup_or_insert` come after the system call and outside its lock, so the table and
the tree disagree between the two, and only the kernel's locks hide it.

The proofs use `EofAssumption`, `BlocksAssumption`, `FlagAssumption` and
`TornAssumption` of ArchiveCommit, `BoundsAssumption` and `ModeAssumption` of
OpenTail, `NoneAssumption` of ContainerBuffer, `ValsAssumption`,
`BoundsAssumption`, `HomeAssumption`, `WorkloadsAssumption` and `NoneAssumption` of ShadowStore,
`LocksAssumption`, `OpsAssumption`, `BoundsAssumption` and `WorkersAssumption` of
LockTable, `ProcessesAssumption`, `NoneAssumption` and `WorkloadsAssumption` of Lifecycle,
`DepthAssumption`, `ThreadsAssumption` and `NoneAssumption` of Passthrough, and `RecordsAssumption`, `NoneAssumption` and `WorkloadAssumption` of
Reconcile, all evaluated by TLC in the runs.

Only model-checked: everything about Rewrite and ContainerLocks, `MountShowsAll` with reingest under
systemd, the type invariant of Passthrough (the bound on numbers looks at two threads
at a time), and the liveness properties (the prover does not handle liveness under
fairness).

## 6. Where code and text disagree

One run is expected to find a violation; `PROJECT.json` quotes the lines.

* **ReconcileMounted.** A merge takes `orig` as its base, the copy apply kept.
  What was written through the mount since is in the backing only, and the
  archive made from the merge replaces it.

Others have no run of their own.  Each is shown by a small change to a
configuration, or follows from the definitions named.

*Archive.*

* `docs/04-crash-safe-commit.md:76` says a commit whose barrier fails leaves the
  active slot alone.  The superblock is written before the second barrier: after
  a failure there (`SyncError` at `Barrier2`) the next open finds the new version.
  It is complete and a crash still recovers, but the caller was told it failed.
* `docs/04-crash-safe-commit.md:81` promises a usable slot at every moment.  With
  `FailedSyncDropsDirty = TRUE` a retry uses the other slot and a crash can leave
  both unusable (`AckedSurvives`).

*Open tail*, on mounts that are not `Supported`; the named sets are in MCOpenTail,
the other rows have `buffer` and `journal` TRUE, bytes 1 and 2, writes up to 2, a new
file:

| modes | violated | what happens |
|---|---|---|
| `MCReopened` | `FsyncDurable` | a file whose last block is short and in the index, as ingest leaves it, is appended to and synced: the bytes go to the journal, which readers serve as the block *after* the short one (`core/wsession.rs:309`; `:28` promises the fsync) |
| `MCContract` | `CommitContract` | an overwrite waits in the session, an append after it in the tail: fsync journals the tail and then commits the session, an index over a journal, against the assertion at `archive/updater.rs:309` |
| `MCRetried` | `NothingInvented` | an fsync that failed after publication is retried and appends the same bytes again (`store/shadow.rs:890`), against `store/shadow.rs:143` |
| chunk 2, size 4; append, grow, fsync | `FsyncDurable` | an extension keeps the journal where a sealed block belongs |
| chunk 2, size 5; append, fsync, crash; faults before, seal | `FsyncDurable` | a failing seal of a full tail leaves a full buffer open; the next append goes on past it |
| chunk 2, size 4; append, truncate | `ReadBack` | a truncation waits in the session while a full tail is sealed straight into the archive; the session then hides it (`core/wsession.rs:366`) |

* `Modes <- MCHole` violates `ReadBack`: a write that begins past the block of a
  short end of file does not pad that block (`core/rmw.rs:196`); `read_range` then
  reports it as damaged (EIO) where `core/rmw.rs:8` promises zeros.  The unit
  tests read through a helper that pads.

*ContainerStore.*

* A setattr of mode or times reads the size without the inode's lock and writes
  it back (`store/container.rs:646`); a write and its fsync in between lose to it
  (`"chmod"` in Ops of the run ContainerBuffer violates `FsyncDurable`).
* `block_geometry` reads the row before the buffers (`store/container.rs:692`).
  If another inode's fsync finishes in between, the handler continues with the
  size before that commit: a write inside the file shrinks it, a truncation may be
  taken for an extension and drop every block.
* `merge_from_flushing` keeps only the newer truncation.  If that one keeps more
  than the older one, as after shrink, extend, shrink, a block in between comes
  back.  The stale size above reaches this too.  With `"cut"` in Ops the run
  ContainerBuffer violates `ImplementsWriteBack` this way, which is why its
  truncations are to zero.
* `rmw::truncate` puts the cut block before it drops those behind it
  (`core/rmw.rs:283`); a commit between the two and a restart leave blocks past the
  end, which a later extension uncovers.
* `unlink` clears the pending data before its transaction: if that fails the file
  stays without it (`"unlink"` in Faults violates `ImplementsWriteBack`).
* `rmdir` looks whether the directory is empty and removes it in two
  transactions; only the kernel's directory locks keep a create out between them.

*ShadowStore and handlers.*

* Its `merge_from_flushing` has the same defect: with `"hole"` added to the
  workload `Sizes`, a failed commit whose truncation cut deeper than a later one
  brings blocks back (`ViewCurrent`).
* `rename` of a directory updates the directory's own number only
  (`store/shadow.rs:81`): `Workloads <- MCMoveDir` violates `ViewCurrent`, since
  the numbers of its files keep their old paths.  A file renamed while a read
  resolves its path (`MCReadMoved`) makes that read find nothing, and answer zeros
  (`ReadsCurrent`); the handlers' `rename` holds the source's lock only before
  `store.rename`.
* `inval_inode` is called without locks, but from a worker (`rwfs.rs:141`): with
  `MaxSyncs` equal to the number of workers all of them can wait for a page whose
  read no worker is left to serve (`EveryCallReturns`).  `tests/concurrency_deadlock.rs`
  has fewer syncs than workers.
* If `inval_inode` fails, or the notifier is not set yet (`main.rs:802`, after the
  session runs), the kernel keeps its page and fsync is answered with Ok all the same
  (`rwfs.rs:142`; the comment there admits it): a shared mapping goes on showing what
  was there before the sync.  `SyncedPagesFresh` speaks of syncs whose notification got through.
* A read of a removed inode that is still open returns zeros (`rwfs.rs:288`).

*seal and compact.*

* With `Holes = TRUE`, `ContentKept` is violated: `compact_file` and `seal_file`
  take the length from the blocks, so a file that ends in a hole shrinks, where
  `compact.rs:7` says the content does not change.
* Temporary files of a rewrite cut short stay.
* A failing fsync of the directory is only a warning (`core/mod.rs:146`), and the
  rewrite ends well: a crash may bring back the archive from before it, and with it
  lose what daemons have committed since, synced or not.

*Lifecycle.*  The workloads leave these out, or the properties do not hold the
code to them:

* reingest fsyncs the files it makes, not their directories, and exchanges the
  backing without its flock (`enable/lifecycle.rs:440`): with `"power"` beside
  reingest `MountShowsAll` and `NothingLost` do not hold, and with `"kill"` under
  systemd `MountShowsAll` does not.
* purge never makes the removal durable: a power loss brings back a backing
  whose records the user gave up.  apply does not fsync the mountpoint it makes.
* After a rollback or a killed apply, a write that falls through leaves the
  mountpoint non-empty beside `orig`: no command brings `orig` back by itself.
* A program that opens a file between apply's activity check and its rename
  (`enable/lifecycle.rs:74`) goes on writing to `orig`, and the mount does not show
  it.  Sessions here open while no command runs.

*Reconcile.*

* `Workloads <- RacedWorkloads` violates `NeverRewritesMounted`: the guard at
  `enable/mod.rs:544` is the only look at the mount, before the options are built and
  the reconcile lock is waited for, and undo alone looks again.  A run overtaken by a
  mount takes its view for fall-through, which `enable/mod.rs:530` says must not
  happen: it writes what the mount serves into `orig` and sets the marker; what it finds identical, or
  sets aside, it unlinks through the mount, so that the backing loses it
  while orig or quarantine keeps it.  `MergedIsServed` leaves out those files (`halved`).
* `Workloads <- LargeWorkloads` violates `FallthroughKept`: a subagent file above
  `MAX_MERGE_FILE_BYTES` is merged by path before anyone looks at its size
  (`plan.rs:43`, `apply.rs:35`), with the empty bytes of its snapshot
  (`preconditions.rs:151`).  Those pass the delete gate against every receiver that
  is empty or ends in a newline, and the file is unlinked; only the stash has it.
  `preconditions.rs:97` expects such files to be kept beside each other, and
  `routes/subagents.rs:61` promises a merge without loss.
* A merge cut short between `orig` and the archive: the next run finds underlay
  and `orig` identical, skips the ingest and clears the marker; the mount serves
  the old archive (`orchestrator/apply.rs:91`).  `MergedIsServed` leaves those
  files out (`halved`) until they are ingested again.
* undo overwrites or deletes what was written through the mount since the run,
  for the reason of ReconcileMounted; it does not look.  What it restores into a memory
  directory goes through a link if there is one, and placed memory files stay.
* An undo cut short has already removed what it reverses and leaves the marker; if
  the underlay is empty a reconcile clears it, the half-undone project can be
  mounted, and some records are in the stash only (undo among the commands that
  may die violates `FallthroughKept`).  Running undo again repairs it.  The marker is cleared
  before the reconcile lock is taken, and `ensure_mountable` runs before mount(2).
* The delete gate checks and then removes: a record appended between goes with
  the file (`"late"`).  A new file that is no session, cut short between `orig` and
  its first archive and then written again, goes to quarantine, and the part in
  `orig` is never ingested (`"again"` with crashes violates `MergedIsServed`).
* A dry run is not without a trace (`orchestrator/driver.rs:18` says it never
  touches the disk): it clears a stale marker of an empty underlay, and leaves a
  generation without a manifest, which makes undo refuse until the next run.  Two
  runs in one second share a generation's directory.
* `KeepBoth` is ignored for subagent and memory files, which `apply_entry` routes
  by path before it looks at the plan, against `orchestrator/driver.rs:15`.
* A memory file is read, compared and then replaced in a target others write to:
  `Workloads <- SharedMemory` violates `FallthroughKept`
  (`routes/memory_passthrough.rs:209`).  A run that reads a mount sees the link and no
  memory files.

*Passthrough.*

* A rename changes the path of the entry only: numbers below a renamed directory,
  and the number of what was overwritten, lead elsewhere
  (`Workloads <- AnyRename` violates `NumberServes`; `passthrough.rs:57`, `:87`).
* setattr goes by path even for an open file: `Workloads <- Removed` truncates
  another file of the same name.  readdir counts lookups the kernel never forgets.

## 7. What is not modelled

* Compression, dictionaries and metrics: functions of the data, or counters, no
  property is about.  CRCs are perfect: a torn slot or a junk cell is detected.
* Overflow of offsets (checked in the code) and the sparse-extension limit.
* Symbolic links, permissions, readdir and exchange or no-replace renames of the
  stores (the kernel's directory lock excludes changes during a listing); lookup
  and readdir of the container and its offline compaction.
* Which block the cache drops when it is full: any may go at any time.
* The choice of the modes in which an unmount is tried, its timeouts and the
  probes that do not hang: one step that succeeds or not.  A mount that hangs
  rather than fails is not distinguished.
* systemd's names and unit texts, the migration of old units, configuration and
  terminal interface; reconcile's rebuild option and the sizes in the sidecar;
  how two texts of one session are merged beyond a union of records.
* What files, attributes and statfs of the passthrough contain.
* The command `ingest` on its own, argument parsing, fixtures, benches, experiments.

## 8. Plan

Done: the modules above, each with the workloads of section 3, and the theorems of
section 5.  Worth doing next, in this order:

1. `OpenTail` over `ShadowStore` for two inodes, so that one's seal meets another's
   commit.
2. Lifecycle and Reconcile in one module: both work on `orig` and the backing, and
   meet today only in `ensure_mountable`.

Modules meant for proofs declare no RECURSIVE operator.  Rewrite stays with TLC: its
content is a concatenation over a sequence of blocks, and what a fold computes needs
induction over data.

## 9. Running

    tlasany ContainerBuffer.tla
    tlc -workers 2 -config ContainerBuffer.cfg MCContainerBuffer
    tlapm ArchiveCommitProofs.tla

On two cores the longest runs are ContainerBuffer, Lifecycle and Reconcile, two
to four minutes each, and LockTable and ShadowStore, about two.  `ReconcileProofs` takes about
twelve minutes, `ShadowStoreProofs` eight, `ContainerBufferProofs` three, `LockTableProofs` two,
`OpenTailProofs` and `LifecycleProofs` five, `ArchiveCommitProofs` and `PassthroughProofs` three.
