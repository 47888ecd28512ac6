---------------------------- MODULE ShadowStore ----------------------------
(***************************************************************************)
(* The shadow-tree store (store/shadow.rs): a directory tree of archives,   *)
(* the map from inode numbers to paths, a write session for each inode that *)
(* a commit moves from `active` to `flushing`, and the cache of opened      *)
(* archive readers with its epoch.                                          *)
(*                                                                         *)
(* Calls run in threads.  A step is one critical section or one call into   *)
(* the file system.  An archive is what its active superblock leads to: a   *)
(* sequence of blocks and the copy of the head of block 0 (ArchiveCommit    *)
(* has the steps inside a commit).  Sizes are counted in blocks; a missing  *)
(* block reads as zeros.                                                    *)
(***************************************************************************)
EXTENDS Integers, Sequences

CONSTANTS
    Dirs, Names,      \* a path is a directory and a name in it
    Files,            \* identities of archives
    Inos,             \* inode numbers, handed out in order
    Threads,
    Vals,             \* contents of a block
    None,
    Home,             \* where the one file is at first
    MaxSize,          \* bound: blocks of a file
    Workloads         \* what the threads do: the calls, whether their callers
                      \* hold the inode's lock against each other, and the
                      \* bound on writes and truncations

ASSUME ValsAssumption == Vals \subseteq Nat \ {0} /\ Vals # {}
ASSUME BoundsAssumption == MaxSize \in Nat \ {0}
ASSUME HomeAssumption == Home \in Dirs \X Names /\ Files # {}
ASSUME WorkloadsAssumption == \A w \in Workloads : w.changes \in Nat /\ w.locked \in BOOLEAN

VARIABLES
    workload,         \* one of Workloads, chosen at the start
    dirs, tree,       \* the backing directory: directories, archives by path
    disk,             \* each archive's committed version
    by_ino,           \* InodeMap: the path of each number; by_path is its inverse
    active, flushing, \* SessionBuffers
    readers,          \* the cached ArchiveReader of each inode: file and version
    call,             \* what each thread is doing
    fresh,            \* no reader was invalidated since the thread looked at
                      \* reader_epoch
    committer,        \* the thread that holds commit_lock, or None
    named,            \* ghost: the file an inode number was handed out for
    latest,           \* ghost: each file's content by the calls that returned
    seen,             \* ghost: the values a reading thread may return
    changes           \* writes and truncations so far

namespace == <<dirs, tree, by_ino, named>>
sessions  == <<active, flushing>>
vars == <<workload, dirs, tree, disk, by_ino, active, flushing, readers, call, fresh,
          committer, named, latest, seen, changes>>

Paths == Dirs \X Names
Idx == 0 .. MaxSize - 1
NoKeep == MaxSize + 1
Idle == [op |-> "idle"]
Ops == workload.ops

-----------------------------------------------------------------------------
(* Paths and inode numbers                                                  *)

Mapped(i) == by_ino[i] # None
InosAt(p) == {i \in Inos : by_ino[i] = p}
New(i) == named[i] = None

\* intern: the number of the path, or the next one.
Intern(p, i, f) ==
    /\ IF InosAt(p) # {} THEN i \in InosAt(p) ELSE New(i) /\ \A j \in Inos : New(j) => i <= j
    /\ by_ino' = [by_ino EXCEPT ![i] = p]
    /\ named' = [named EXCEPT ![i] = f]

PathsOf(f) == {p \in Paths : tree[p] = f}
Exists(f) == f # None /\ PathsOf(f) # {}

-----------------------------------------------------------------------------
(* Archives and write sessions                                              *)

\* HeadCacheUpdate: Keep, Clear or the value to set.
Keep  == 0
Clear == -1

Block(blocks, k) == IF k < Len(blocks) THEN blocks[k + 1] ELSE 0

\* The session with_session makes: flushing passes on the size only.
Session(size) ==
    [dirty |-> [k \in Idx |-> None], size |-> size, keep |-> NoKeep, head |-> Keep]

PutBlock(s, k, v, size) ==
    [s EXCEPT !.dirty[k] = v, !.size = size, !.head = IF k = 0 THEN Clear ELSE @]

TruncateBlocks(s, keep, size) ==
    [s EXCEPT !.dirty = [k \in Idx |-> IF k < keep THEN @[k] ELSE None],
              !.keep = IF keep < @ THEN keep ELSE @,
              !.size = size,
              !.head = IF keep = 0 THEN Clear ELSE @]

\* merge_from_flushing, a over f.
MergedAcrossTruncation(a, f) ==                                    \* mutant
    [dirty |-> [k \in Idx |-> IF a.dirty[k] # None THEN a.dirty[k] ELSE f.dirty[k]],
     size |-> a.size,
     keep |-> IF a.keep # NoKeep THEN a.keep ELSE f.keep,
     head |-> IF a.head # Keep THEN a.head ELSE f.head]
Merged(a, f) ==
    [dirty |-> [k \in Idx |-> IF a.dirty[k] # None THEN a.dirty[k]
                            ELSE IF k < a.keep THEN f.dirty[k] ELSE None],
     size |-> a.size,
     keep |-> IF a.keep # NoKeep THEN a.keep ELSE f.keep,
     head |-> IF a.head # Keep THEN a.head
              ELSE IF f.head \in Vals /\ a.size < 1 THEN Clear ELSE f.head]

\* What a session shows of a block: a value, zeros, or None for what is below.
Shows(s, k) ==
    IF s = None THEN None
    ELSE IF s.dirty[k] # None THEN s.dirty[k]
    ELSE IF k >= s.keep THEN 0 ELSE None

Buffered(i, k) == IF Shows(active[i], k) # None THEN Shows(active[i], k) ELSE Shows(flushing[i], k)

\* block_geometry
Size(i, f) ==
    IF active[i] # None THEN active[i].size
    ELSE IF flushing[i] # None THEN flushing[i].size ELSE Len(disk[f].blocks)

\* What a reader of inode i, whose archive is f, gets.
Content(i, f) ==
    [k \in 1 .. Size(i, f) |->
        IF Buffered(i, k - 1) # None THEN Buffered(i, k - 1) ELSE Block(disk[f].blocks, k - 1)]

\* commit_with_updater: truncate, the dirty blocks in order, the head.
Committed(s, a) ==
    LET changed == s.keep # NoKeep \/ \E k \in Idx : s.dirty[k] # None
        size == IF changed THEN s.size ELSE Len(a.blocks)
        kept(k) == IF k < s.keep THEN Block(a.blocks, k) ELSE 0
        head == IF s.keep # NoKeep /\ size < 1 THEN None ELSE a.head
    IN [blocks |-> [k \in 1 .. size |-> IF s.dirty[k - 1] # None THEN s.dirty[k - 1] ELSE kept(k - 1)],
        head |-> CASE s.head = Keep -> head [] s.head = Clear -> None [] OTHER -> s.head]

-----------------------------------------------------------------------------
(* Threads                                                                  *)

Goto(t, c) == call' = [call EXCEPT ![t] = c]
Return(t) == Goto(t, Idle)
At(t, op, step) == call[t].op = op /\ call[t].step = step
Step(t, s) == Goto(t, [call[t] EXCEPT !.step = s])

Reading(t) == call[t].op \in {"get", "head", "stat"}
Using(i) ==
    {t \in Threads : (Reading(t) \/ call[t].op \in {"put", "cut", "sethead", "sync"}) /\ call[t].ino = i}
Changing(i) == {t \in Using(i) : call[t].op \in {"put", "cut", "sethead"}}

\* The kernel uses only numbers it was given.
MayCall(t, op, i) ==
    /\ op \in Ops /\ call[t] = Idle /\ Mapped(i)
    /\ IF workload.locked THEN Using(i) = {} ELSE op \in {"put", "cut", "grow"} => Changing(i) = {}

\* invalidate_reader
Invalidated(i) ==
    /\ fresh' = [t \in Threads |-> FALSE]
    /\ readers' = [readers EXCEPT ![i] = None]

(* get_block and read_head_cache *)

\* What the buffers show is returned at once; a head is only looked for when
\* the inode has no session.
StartGet(t, i, k) ==
    /\ MayCall(t, "get", i) /\ k < Size(i, named[i]) /\ Buffered(i, k) = None
    /\ Goto(t, [op |-> "get", step |-> "lookup", ino |-> i, idx |-> k, path |-> None,
                reader |-> None, value |-> None])
    /\ UNCHANGED <<namespace, disk, sessions, readers, fresh, committer, latest, changes>>

StartHead(t, i) ==
    /\ MayCall(t, "head", i) /\ active[i] = None /\ flushing[i] = None
    /\ Goto(t, [op |-> "head", step |-> "lookup", ino |-> i, idx |-> 0, path |-> None,
                reader |-> None, value |-> None])
    /\ UNCHANGED <<namespace, disk, sessions, readers, fresh, committer, latest, changes>>

\* The value found in a reader; without a head the caller goes on with blocks.
Answer(t, r) ==
    IF call[t].op = "get"
    THEN Goto(t, [call[t] EXCEPT !.step = "done", !.value = IF r = None THEN 0 ELSE Block(r.blocks, call[t].idx)])
    ELSE IF r # None /\ r.head # None /\ Len(r.blocks) > 0
    THEN Goto(t, [call[t] EXCEPT !.step = "done", !.value = r.head])
    ELSE Return(t)

\* cached_reader: the cache, then the epoch,
LookupReader(t) ==
    /\ Reading(t) /\ call[t].step = "lookup"
    /\ LET r == readers[call[t].ino] IN
         IF r # None THEN Answer(t, r) /\ UNCHANGED fresh
         ELSE Step(t, "resolve") /\ fresh' = [fresh EXCEPT ![t] = TRUE]
    /\ UNCHANGED <<namespace, disk, sessions, readers, committer, latest, changes>>

\* the path,
Resolve(t) ==
    /\ Reading(t) /\ call[t].step = "resolve"
    /\ LET p == by_ino[call[t].ino] IN
         IF p = None THEN Answer(t, None)
         ELSE Goto(t, [call[t] EXCEPT !.step = "open", !.path = p])
    /\ UNCHANGED <<namespace, disk, sessions, readers, fresh, committer, latest, changes>>

\* the archive, if there is one,
Open(t) ==
    /\ Reading(t) /\ call[t].step = "open"
    /\ LET f == tree[call[t].path] IN
         IF f = None THEN Answer(t, None)
         ELSE Goto(t, [call[t] EXCEPT !.step = "fill", !.reader = disk[f]])
    /\ UNCHANGED <<namespace, disk, sessions, readers, fresh, committer, latest, changes>>

\* and the cache again, unless the epoch has changed.
FillRegardless(t) ==                                               \* mutant
    /\ Reading(t) /\ call[t].step = "fill"
    /\ LET i == call[t].ino
           r == IF readers[i] # None THEN readers[i] ELSE call[t].reader
       IN readers' = [readers EXCEPT ![i] = r] /\ Answer(t, r)
    /\ UNCHANGED <<namespace, disk, sessions, fresh, committer, latest, changes>>
Fill(t) ==
    /\ Reading(t) /\ call[t].step = "fill"
    /\ LET i == call[t].ino
           r == IF readers[i] # None THEN readers[i] ELSE call[t].reader
       IN readers' = (IF fresh[t] THEN [readers EXCEPT ![i] = r] ELSE readers) /\ Answer(t, r)
    /\ UNCHANGED <<namespace, disk, sessions, fresh, committer, latest, changes>>

Done(t) ==
    /\ Reading(t) /\ call[t].step = "done"
    /\ Return(t)
    /\ UNCHANGED <<namespace, disk, sessions, readers, fresh, committer, latest, changes>>

(* getattr_ino *)

\* The path, the size a session knows,
StartStat(t, i) ==
    /\ MayCall(t, "stat", i)
    /\ Goto(t, [op |-> "stat", step |-> "sessions", ino |-> i, path |-> by_ino[i], value |-> None])
    /\ UNCHANGED <<namespace, disk, sessions, readers, fresh, committer, latest, changes>>

AttrFromMeta(t) ==
    /\ At(t, "stat", "sessions")
    /\ LET i == call[t].ino
           s == IF active[i] # None THEN active[i] ELSE flushing[i]
       IN IF s # None THEN Goto(t, [call[t] EXCEPT !.step = "done", !.value = s.size])
          ELSE Step(t, "footer")
    /\ UNCHANGED <<namespace, disk, sessions, readers, fresh, committer, latest, changes>>

\* or that of the archive.
ReadFooterGeometry(t) ==
    /\ At(t, "stat", "footer")
    /\ LET f == tree[call[t].path] IN
         IF f = None THEN Return(t)
         ELSE Goto(t, [call[t] EXCEPT !.step = "done", !.value = Len(disk[f].blocks)])
    /\ UNCHANGED <<namespace, disk, sessions, readers, fresh, committer, latest, changes>>

(* put_block, truncate_blocks and set_head_cache *)

Written(blocks, k, v) ==
    [j \in 1 .. (IF k < Len(blocks) THEN Len(blocks) ELSE k + 1) |-> IF j = k + 1 THEN v ELSE Block(blocks, j - 1)]

\* write_at and truncate know the size from block_geometry.
\* Unless "hole" is among the calls, nothing is written after a file has grown.
StartPut(t, i, k, v) ==
    /\ MayCall(t, "put", i) /\ Exists(named[i]) /\ changes < workload.changes
    /\ LET size == Size(i, named[i]) IN
         /\ k <= size
         /\ Goto(t, [op |-> "put", step |-> "session", ino |-> i, idx |-> k, value |-> v,
                     size |-> IF k < size THEN size ELSE k + 1, path |-> None])
    /\ changes' = changes + 1
    /\ UNCHANGED <<namespace, disk, sessions, readers, fresh, committer, latest>>

StartCut(t, i, n) ==
    /\ Exists(named[i]) /\ changes < workload.changes
    /\ LET size == Size(i, named[i]) IN
         /\ n # size /\ MayCall(t, IF n < size THEN "cut" ELSE "grow", i)
         /\ (n > size /\ "hole" \notin Ops) => changes + 1 = workload.changes
         /\ Goto(t, [op |-> "cut", step |-> "session", ino |-> i, idx |-> IF n < size THEN n ELSE size,
                     value |-> None, size |-> n, path |-> None])
    /\ changes' = changes + 1
    /\ UNCHANGED <<namespace, disk, sessions, readers, fresh, committer, latest>>

\* What the call does with the session s, and where it goes on: a block 0
\* with more blocks after it also has its head cached.
Applied(c, s) ==
    CASE c.op = "put" -> PutBlock(s, c.idx, c.value, c.size)
      [] c.op = "cut" -> TruncateBlocks(s, c.idx, c.size)
      [] OTHER        -> [s EXCEPT !.head = c.value]

Change(t, s) ==
    LET c == call[t]
        f == named[c.ino]
    IN /\ active' = [active EXCEPT ![c.ino] = Applied(c, s)]
       /\ latest' = CASE c.op = "put" -> [latest EXCEPT ![f] = Written(@, c.idx, c.value)]
                      [] c.op = "cut" -> [latest EXCEPT ![f] = [k \in 1 .. c.size |-> Block(@, k - 1)]]
                      [] OTHER -> latest
       /\ IF c.op = "put" /\ c.idx = 0 /\ c.size > 1
          THEN Goto(t, [c EXCEPT !.op = "sethead", !.step = "session", !.path = None])
          ELSE Return(t)

\* with_session: an active session is changed at once,
WithSession(t) ==
    /\ call[t].op \in {"put", "cut", "sethead"} /\ call[t].step = "session"
    /\ LET i == call[t].ino IN
         \/ active[i] # None /\ Change(t, active[i])
         \/ /\ active[i] = None /\ UNCHANGED <<active, latest>>
            /\ IF Mapped(i) THEN Goto(t, [call[t] EXCEPT !.step = "first", !.path = by_ino[i]]) ELSE Return(t)
    /\ UNCHANGED <<namespace, disk, flushing, readers, fresh, committer, changes>>

\* a new one starts from the size of flushing or of the archive at the path.
FirstChange(t) ==
    /\ call[t].op \in {"put", "cut", "sethead"} /\ call[t].step = "first"
    /\ LET i == call[t].ino
           f == tree[call[t].path]
       IN Change(t, IF active[i] # None THEN active[i]
                    ELSE Session(IF flushing[i] # None THEN flushing[i].size
                                 ELSE IF f # None THEN Len(disk[f].blocks) ELSE 0))
    /\ UNCHANGED <<namespace, disk, flushing, readers, fresh, committer, changes>>

(* commit_session *)

\* The lock, and active to flushing.  Without a session the file is synced as
\* it is.
SwapUnlocked(t, i) ==                                              \* mutant
    /\ MayCall(t, "sync", i) /\ active[i] # None
    /\ active' = [active EXCEPT ![i] = None] /\ flushing' = [flushing EXCEPT ![i] = active[i]]
    /\ committer' = t
    /\ Goto(t, [op |-> "sync", step |-> "commit", ino |-> i])
    /\ UNCHANGED <<namespace, disk, readers, fresh, latest, changes>>
Swap(t, i) ==
    /\ MayCall(t, "sync", i) /\ active[i] # None /\ committer = None
    /\ active' = [active EXCEPT ![i] = None] /\ flushing' = [flushing EXCEPT ![i] = active[i]]
    /\ committer' = t
    /\ Goto(t, [op |-> "sync", step |-> "commit", ino |-> i])
    /\ UNCHANGED <<namespace, disk, readers, fresh, latest, changes>>

Target(t) == IF Mapped(call[t].ino) THEN tree[by_ino[call[t].ino]] ELSE None

Publish(t) ==
    /\ At(t, "sync", "commit") /\ Target(t) # None
    /\ disk' = [disk EXCEPT ![Target(t)] = Committed(flushing[call[t].ino], @)]
    /\ Step(t, "bump")
    /\ UNCHANGED <<namespace, sessions, readers, fresh, committer, latest, changes>>

\* An error before the commit point: the session goes back under what came
\* since.  Without an archive at the path there always is one.
FailCommit(t) ==
    /\ At(t, "sync", "commit") /\ ("fail" \in Ops \/ Target(t) = None)
    /\ LET i == call[t].ino IN
         /\ active' = [active EXCEPT ![i] = IF @ = None THEN flushing[i] ELSE Merged(@, flushing[i])]
         /\ flushing' = [flushing EXCEPT ![i] = None]
    /\ committer' = None /\ Return(t)
    /\ UNCHANGED <<namespace, disk, readers, fresh, latest, changes>>

\* invalidate_reader, the epoch first,
BumpEpoch(t) ==
    /\ At(t, "sync", "bump")
    /\ fresh' = [u \in Threads |-> FALSE]
    /\ Step(t, "evict")
    /\ UNCHANGED <<namespace, disk, sessions, readers, committer, latest, changes>>

EvictReader(t) ==
    /\ At(t, "sync", "evict")
    /\ readers' = [readers EXCEPT ![call[t].ino] = None]
    /\ Step(t, "end")
    /\ UNCHANGED <<namespace, disk, sessions, fresh, committer, latest, changes>>

\* The last sync of the file may fail, which changes nothing: the session is
\* in the archive.
EndCommit(t) ==
    /\ At(t, "sync", "end")
    /\ flushing' = [flushing EXCEPT ![call[t].ino] = None]
    /\ committer' = None /\ Return(t)
    /\ UNCHANGED <<namespace, disk, active, readers, fresh, latest, changes>>

-----------------------------------------------------------------------------
(* The namespace                                                            *)

Released(i) ==
    /\ "release" \in Ops /\ Mapped(i) /\ readers[i] # None
    /\ Invalidated(i)
    /\ UNCHANGED <<namespace, disk, sessions, call, committer, latest, changes>>

\* The ns lock; and the kernel looks nothing up in a directory it is changing.
NsFree == \A t \in Threads : call[t].op # "rename"

Lookup(p, i) ==
    /\ NsFree /\ tree[p] # None /\ InosAt(p) = {} /\ Intern(p, i, tree[p])
    /\ UNCHANGED <<dirs, tree, disk, sessions, readers, call, fresh, committer, latest, changes>>

Empty == [blocks |-> <<>>, head |-> None]

Create(p, f, i) ==
    /\ "create" \in Ops /\ NsFree /\ p[1] \in dirs /\ tree[p] = None
    /\ ~Exists(f) /\ f \notin {named[j] : j \in Inos}
    /\ tree' = [tree EXCEPT ![p] = f] /\ disk' = [disk EXCEPT ![f] = Empty]
    /\ latest' = [latest EXCEPT ![f] = <<>>]
    /\ Intern(p, i, f)
    /\ UNCHANGED <<dirs, sessions, readers, call, fresh, committer, changes>>

\* The rows of a number whose file is gone.
Dropped(i) ==
    /\ active' = [active EXCEPT ![i] = None] /\ flushing' = [flushing EXCEPT ![i] = None]
    /\ Invalidated(i)

Unlink(p) ==
    /\ "unlink" \in Ops /\ tree[p] # None /\ committer = None
    /\ tree' = [tree EXCEPT ![p] = None]
    /\ IF InosAt(p) = {} THEN UNCHANGED <<sessions, readers, fresh>> ELSE \A i \in InosAt(p) : Dropped(i)
    /\ by_ino' = [i \in Inos |-> IF by_ino[i] = p THEN None ELSE by_ino[i]]
    /\ UNCHANGED <<dirs, named, disk, call, committer, latest, changes>>

\* rename holds ns and commit_lock; the file moves first,
RenameFile(t, p, q) ==
    /\ "rename" \in Ops /\ call[t] = Idle /\ committer = None
    /\ tree[p] # None /\ p # q /\ q[1] \in dirs
    /\ tree' = [tree EXCEPT ![q] = tree[p], ![p] = None]
    /\ committer' = t
    /\ Goto(t, [op |-> "rename", step |-> "map", path |-> p, to |-> q])
    /\ UNCHANGED <<dirs, by_ino, named, disk, sessions, readers, fresh, latest, changes>>

\* then the tables: an overwritten number goes, the moved one keeps its session
\* and its reader.
RenameMapKeepingVictim(t) ==                                       \* mutant
    /\ At(t, "rename", "map")
    /\ by_ino' = [i \in Inos |-> IF by_ino[i] = call[t].path THEN call[t].to ELSE by_ino[i]]
    /\ committer' = None /\ Return(t)
    /\ UNCHANGED <<dirs, tree, named, disk, sessions, readers, fresh, latest, changes>>
RenameMap(t) ==
    /\ At(t, "rename", "map")
    /\ LET p == call[t].path
           q == call[t].to
       IN /\ IF InosAt(q) = {} THEN UNCHANGED <<sessions, readers, fresh>> ELSE \A i \in InosAt(q) : Dropped(i)
          /\ by_ino' = [i \in Inos |-> IF by_ino[i] = q THEN None ELSE IF by_ino[i] = p THEN q ELSE by_ino[i]]
    /\ committer' = None /\ Return(t)
    /\ UNCHANGED <<dirs, tree, named, disk, latest, changes>>

\* A directory takes its files along; only its own number learns of it.
RenameDir(d, e) ==
    /\ "renamedir" \in Ops /\ d \in dirs /\ e \notin dirs /\ committer = None
    /\ dirs' = (dirs \ {d}) \cup {e}
    /\ tree' = [p \in Paths |-> CASE p[1] = e -> tree[<<d, p[2]>>] [] p[1] = d -> None [] OTHER -> tree[p]]
    /\ UNCHANGED <<by_ino, named, disk, sessions, readers, call, fresh, committer, latest, changes>>

Mkdir(d) ==
    /\ "renamedir" \in Ops /\ NsFree /\ d \notin dirs /\ dirs' = dirs \cup {d}
    /\ UNCHANGED <<tree, by_ino, named, disk, sessions, readers, call, fresh, committer, latest, changes>>

Rmdir(d) ==
    /\ "renamedir" \in Ops /\ NsFree /\ d \in dirs /\ \A p \in Paths : p[1] = d => tree[p] = None
    /\ dirs' = dirs \ {d}
    /\ UNCHANGED <<tree, by_ino, named, disk, sessions, readers, call, fresh, committer, latest, changes>>

\* The daemon is killed and the tree mounted again.
Crash ==
    /\ "crash" \in Ops
    /\ UNCHANGED <<dirs, tree, disk, changes>>
    /\ by_ino' = [i \in Inos |-> None] /\ named' = [i \in Inos |-> None]
    /\ active' = [i \in Inos |-> None] /\ flushing' = [i \in Inos |-> None]
    /\ readers' = [i \in Inos |-> None]
    /\ call' = [t \in Threads |-> Idle] /\ fresh' = [t \in Threads |-> FALSE]
    /\ committer' = None
    /\ latest' = [f \in Files |-> disk[f].blocks]

-----------------------------------------------------------------------------

\* Ghost: what a read that began may return is what its block, or the size, was
\* at some moment since.
Asked(c, content) == IF c.op = "stat" THEN Len(content) ELSE Block(content, c.idx)
Track ==
    seen' = [t \in Threads |->
        IF ~Reading(t)' THEN {}
        ELSE LET c == call'[t]
                 f == named[c.ino]
             IN seen[t] \cup {Asked(c, latest[f]), Asked(c, latest'[f])}]

Init ==
    /\ workload \in Workloads
    /\ dirs = {Home[1]}
    /\ LET f == CHOOSE f \in Files : TRUE
           v == CHOOSE v \in Vals : TRUE
       IN /\ tree = [p \in Paths |-> IF p = Home THEN f ELSE None]
          /\ disk = [g \in Files |-> IF g = f THEN [blocks |-> [k \in 1 .. MaxSize |-> v], head |-> v]
                                    ELSE Empty]
    /\ latest = [f \in Files |-> disk[f].blocks]
    /\ by_ino = [i \in Inos |-> None] /\ named = [i \in Inos |-> None]
    /\ active = [i \in Inos |-> None] /\ flushing = [i \in Inos |-> None]
    /\ readers = [i \in Inos |-> None]
    /\ call = [t \in Threads |-> Idle] /\ fresh = [t \in Threads |-> FALSE]
    /\ seen = [t \in Threads |-> {}]
    /\ committer = None /\ changes = 0

Get(t) == LookupReader(t) \/ Resolve(t) \/ Open(t) \/ Fill(t) \/ Done(t)
Stat(t) == AttrFromMeta(t) \/ ReadFooterGeometry(t)
Write(t) == WithSession(t) \/ FirstChange(t)
Commit(t) == Publish(t) \/ FailCommit(t) \/ BumpEpoch(t) \/ EvictReader(t) \/ EndCommit(t)

Next ==
    /\ UNCHANGED workload
    /\ \/ \E t \in Threads : Get(t) \/ Stat(t) \/ Write(t) \/ Commit(t) \/ RenameMap(t)
       \/ \E t \in Threads, i \in Inos :
            \/ StartHead(t, i) \/ StartStat(t, i) \/ Swap(t, i)
            \/ \E k \in Idx : StartGet(t, i, k) \/ \E v \in Vals : StartPut(t, i, k, v)
            \/ \E n \in 0 .. MaxSize : StartCut(t, i, n)
       \/ \E i \in Inos : Released(i)
       \/ \E p \in Paths, i \in Inos : Lookup(p, i) \/ \E f \in Files : Create(p, f, i)
       \/ \E p \in Paths : Unlink(p)
       \/ \E t \in Threads, p, q \in Paths : RenameFile(t, p, q)
       \/ \E d, e \in Dirs : RenameDir(d, e)
       \/ \E d \in Dirs : Mkdir(d) \/ Rmdir(d)
       \/ Crash
    /\ Track

Spec == Init /\ [][Next]_vars

-----------------------------------------------------------------------------
(* Properties                                                               *)

Contents == UNION {[1 .. n -> Vals \cup {0}] : n \in 0 .. MaxSize}
Archives == [blocks : Contents, head : Vals \cup {None}]
Sessions ==
    [dirty : [Idx -> Vals \cup {0, None}], size : 0 .. MaxSize, keep : 0 .. NoKeep,
     head : {Keep, Clear} \cup Vals]

ASSUME NoneAssumption ==
    /\ None \notin Nat \cup Files \cup Threads \cup Paths \cup Contents \cup Archives \cup Sessions
    /\ \A f \in Files : None \notin [{f} -> Contents \cup {None}]

\* Types, and a path has one inode number at most: by_path is a map.
TypeOK ==
    /\ workload \in Workloads /\ dirs \subseteq Dirs
    /\ tree \in [Paths -> Files \cup {None}] /\ by_ino \in [Inos -> Paths \cup {None}]
    /\ disk \in [Files -> Archives] /\ latest \in [Files -> Contents]
    /\ active \in [Inos -> Sessions \cup {None}] /\ flushing \in [Inos -> Sessions \cup {None}]
    /\ readers \in [Inos -> Archives \cup {None}]
    /\ named \in [Inos -> Files \cup {None}] /\ committer \in Threads \cup {None}
    /\ fresh \in [Threads -> BOOLEAN] /\ changes \in 0 .. workload.changes
    /\ \A i, j \in Inos : Mapped(i) /\ by_ino[i] = by_ino[j] => i = j

\* What the handlers see to: the calls on a number exclude each other where
\* files are renamed and where something is written past a hole; and, for what
\* holds of contents, nothing is written where directories move.
Orderly(workloads) ==
    \A w \in workloads :
        /\ "rename" \in w.ops \/ "hole" \in w.ops => w.locked
        /\ "renamedir" \in w.ops => w.ops \cap {"put", "cut", "grow"} = {}

\* And, for what reads of several steps find, that no file moves while it is read.
ReadInPlace(workloads) ==
    \A w \in workloads : w.ops \cap {"get", "head", "stat"} # {} => w.ops \cap {"rename", "renamedir"} = {}

\* Whoever looks a path up and reads what is there now gets what the calls on
\* that file have written, whatever commits, failures and renames did.
ViewCurrent ==
    NsFree =>
        \A p \in Paths : tree[p] # None =>
            LET f == tree[p] IN
            IF InosAt(p) = {} THEN disk[f].blocks = latest[f]
            ELSE \A i \in InosAt(p) : Content(i, f) = latest[f]

\* A read that takes several steps returns something its block held after the
\* read began, from a cached reader or a new one, and getattr a size the file
\* had since, unless the file was removed under it.
ReadsCurrent ==
    \A t \in Threads :
        Reading(t) /\ call[t].step = "done" /\ Exists(named[call[t].ino]) => call[t].value \in seen[t]

\* To its callers each archive is an atomic write-back file.
View(f) ==
    IF ~Exists(f) THEN None
    ELSE LET numbers == {i \in Inos : Mapped(i) /\ named[i] = f} IN
         IF numbers = {} THEN disk[f].blocks ELSE Content(CHOOSE i \in numbers : TRUE, f)

Batch(f) ==
    LET commits == {t \in Threads : At(t, "sync", "commit") /\ named[call[t].ino] = f} IN
    IF commits = {} THEN None
    ELSE Committed(flushing[call[CHOOSE t \in commits : TRUE].ino], disk[f]).blocks

PromiseVars(f) == <<View(f), Batch(f), Exists(f), disk[f].blocks>>

Promise(f) == INSTANCE WriteBackStore WITH
    Inos <- {f}, Gone <- None, NoBatch <- None,
    view <- [g \in {f} |-> View(g)],
    batch <- IF Batch(f) = None THEN None ELSE [g \in {f} |-> Batch(g)],
    durable <- [g \in {f} |-> IF Exists(g) THEN disk[g].blocks ELSE None]

\* Each commit lands all the file held when it took the session, or nothing;
\* a failed one takes nothing from readers; removed files stay removed.
ImplementsWriteBack ==
    /\ \A f \in Files : Promise(f)!Init
    /\ [][\A f \in Files : Promise(f)!Next \/ UNCHANGED PromiseVars(f)]_vars
=============================================================================
