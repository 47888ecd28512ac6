----------------------------- MODULE LockTable -----------------------------
(***************************************************************************)
(* Concurrent handlers of ScrollzRw: the table of inode locks, the cache    *)
(* of decompressed blocks, and the kernel on both sides of the mount.       *)
(*                                                                         *)
(* A worker thread of the FUSE session takes one request at a time.  Its    *)
(* handler fetches the inode's lock from the table, works under it, and     *)
(* afterwards may evict the table entry or tell the kernel to invalidate    *)
(* its pages, which waits for pages that are locked by reads in progress.   *)
(*                                                                         *)
(* One inner block per inode stands for its content, as a version number:   *)
(* what matters is who sees which version.                                  *)
(***************************************************************************)
EXTENDS Integers, FiniteSets

CONSTANTS
    Inos,
    Workers,      \* the threads of the FUSE session
    Locks,        \* identities of Arc<RwLock<InodeState>>
    None,
    Ops,          \* the requests of the workload
    MaxVersion,   \* bound: changes of an inode
    MaxSyncs      \* bound: fsync and flush requests at the same time

ASSUME LocksAssumption == None \notin Locks /\ None \notin Nat
ASSUME BoundsAssumption == MaxVersion \in Nat \ {0} /\ MaxSyncs \in Nat
ASSUME WorkersAssumption == IsFiniteSet(Workers)

VARIABLES
    inodes,   \* the lock table
    ref,      \* the Arc a worker holds
    held,     \* its guard: "no", "read" or "write"
    pc, call, \* the worker's step and request
    got,      \* the block a read has so far
    content,  \* the version of the block in tail buffer, session and archive
    gone,     \* the store has removed the inode
    cache,    \* BlockCache: the version it has of the block
    looked,   \* kernel: the inode is in its table
    page,     \* kernel: the version in the page cache
    pinned,   \* kernel: the page is locked by a read: "no", "queued", "served"
    told      \* ghost: the newest version of a sync whose invalidation the kernel took

file   == <<content, gone, told>>
kernel == <<looked, page, pinned>>
vars == <<inodes, ref, held, pc, call, got, content, gone, cache, looked, page, pinned, told>>

Hole == 0                 \* a block of zeros
Idle == [op |-> "none", ino |-> None]
Shared    == {"lookup", "read"}
Exclusive == {"write", "sync", "unlink", "forget"}
Evicting  == {"unlink", "forget"}

ASSUME OpsAssumption == Ops \subseteq Shared \cup Exclusive

Ino(w) == call[w].ino
On(w, op, step) == call[w].op = op /\ pc[w] = step
Goto(w, step) == pc' = [pc EXCEPT ![w] = step]

-----------------------------------------------------------------------------
(* The kernel                                                               *)

\* Requests that pin the inode in the kernel until they are answered.
InUse(i) ==
    \/ pinned[i] # "no"
    \/ \E w \in Workers : Ino(w) = i /\ call[w].op \notin {"lookup", "forget"} /\ pc[w] # "drop"

\* The directory's lock keeps lookups and removals of a name apart.
SameName(i) == \E w \in Workers : Ino(w) = i /\ call[w].op \in {"lookup", "unlink"} /\ pc[w] # "drop"

Syncs == {w \in Workers : call[w].op = "sync"}
Writes(i) == {w \in Workers : call[w] = [op |-> "write", ino |-> i] /\ pc[w] \notin {"unlock", "reply", "drop"}}

MaySend(op, i) ==
    /\ op \in Ops
    /\ CASE op = "lookup" -> ~gone[i] /\ ~SameName(i)
         [] op = "unlink" -> looked[i] /\ ~gone[i] /\ ~SameName(i)
         [] op = "forget" -> looked[i] /\ ~InUse(i)
         [] op = "write"  -> looked[i] /\ content[i] + Cardinality(Writes(i)) < MaxVersion
         [] op = "sync"   -> looked[i] /\ Cardinality(Syncs) < MaxSyncs

\* A worker takes a request.  A forget is sent when the kernel drops the
\* inode, its pages included.
Send(w, op, i) ==
    /\ pc[w] = "idle" /\ MaySend(op, i)
    /\ call' = [call EXCEPT ![w] = [op |-> op, ino |-> i]]
    /\ Goto(w, IF op = "unlink" THEN "remove" ELSE "fetch")
    /\ IF op = "forget"
       THEN looked' = [looked EXCEPT ![i] = FALSE] /\ page' = [page EXCEPT ![i] = None]
       ELSE UNCHANGED <<looked, page>>
    /\ UNCHANGED <<inodes, ref, held, got, file, cache, pinned>>

\* A buffered read or a fault of a page that is not cached locks it.
Fault(i) ==
    /\ "read" \in Ops /\ looked[i] /\ page[i] = None /\ pinned[i] = "no"
    /\ pinned' = [pinned EXCEPT ![i] = "queued"]
    /\ UNCHANGED <<inodes, ref, held, pc, call, got, file, cache, looked, page>>

Serve(w, i) ==
    /\ pc[w] = "idle" /\ pinned[i] = "queued"
    /\ pinned' = [pinned EXCEPT ![i] = "served"]
    /\ call' = [call EXCEPT ![w] = [op |-> "read", ino |-> i]]
    /\ Goto(w, "fetch")
    /\ UNCHANGED <<inodes, ref, held, got, file, cache, looked, page>>

-----------------------------------------------------------------------------
(* The lock table                                                           *)

\* unlink, and rename over a file, first remove it from the store.
Remove(w) ==
    /\ On(w, "unlink", "remove")
    /\ gone' = [gone EXCEPT ![Ino(w)] = TRUE]
    /\ Goto(w, "fetch")
    /\ UNCHANGED <<inodes, ref, held, call, got, content, told, cache, kernel>>

Free(l) == (\A i \in Inos : inodes[i] # l) /\ (\A w \in Workers : ref[w] # l)

\* lock_for: entry().or_default() and the clone are one step under the
\* shard's lock.
LockFor(w) ==
    /\ pc[w] = "fetch"
    /\ \E l \in Locks :
         /\ IF inodes[Ino(w)] = None THEN Free(l) ELSE l = inodes[Ino(w)]
         /\ inodes' = [inodes EXCEPT ![Ino(w)] = l]
         /\ ref' = [ref EXCEPT ![w] = l]
    /\ Goto(w, "lock")
    /\ UNCHANGED <<held, call, got, file, cache, kernel>>

\* RwLock::read and RwLock::write.
Acquire(w) ==
    /\ pc[w] = "lock"
    /\ LET mode == IF call[w].op \in Shared THEN "read" ELSE "write" IN
         /\ \A v \in Workers : ref[v] = ref[w] =>
              held[v] \in (IF mode = "read" THEN {"no", "read"} ELSE {"no"})
         /\ held' = [held EXCEPT ![w] = mode]
    /\ Goto(w, "body")
    /\ UNCHANGED <<inodes, ref, call, got, file, cache, kernel>>

UnlockKeepingGuard(w) ==                                           \* mutant
    /\ pc[w] = "unlock"
    /\ ref' = [ref EXCEPT ![w] = None]
    /\ Goto(w, IF call[w].op \in Evicting THEN "evict" ELSE "reply")
    /\ UNCHANGED <<inodes, held, call, got, file, cache, kernel>>
\* The guard goes; with unlink and forget the Arc as well.
Unlock(w) ==
    /\ pc[w] = "unlock"
    /\ held' = [held EXCEPT ![w] = "no"]
    /\ IF call[w].op \in Evicting
       THEN ref' = [ref EXCEPT ![w] = None] /\ Goto(w, "evict")
       ELSE UNCHANGED ref /\ Goto(w, "reply")
    /\ UNCHANGED <<inodes, call, got, file, cache, kernel>>

\* evict_lock: remove_if the table's Arc is the only one.
EvictUnchecked(w) ==                                               \* mutant
    /\ pc[w] = "evict"
    /\ inodes' = [inodes EXCEPT ![Ino(w)] = None]
    /\ Goto(w, "reply")
    /\ UNCHANGED <<ref, held, call, got, file, cache, kernel>>
Evict(w) ==
    /\ pc[w] = "evict"
    /\ inodes' = IF \E v \in Workers : ref[v] # None /\ ref[v] = inodes[Ino(w)] THEN inodes
                 ELSE [inodes EXCEPT ![Ino(w)] = None]
    /\ Goto(w, "reply")
    /\ UNCHANGED <<ref, held, call, got, file, cache, kernel>>

-----------------------------------------------------------------------------
(* Under the lock                                                           *)

\* read_range: the size of the file, then the cache.
ReadCache(w) ==
    /\ On(w, "read", "body")
    /\ LET i == Ino(w) IN
         /\ got' = [got EXCEPT ![w] = IF gone[i] THEN None ELSE cache[i]]
         /\ Goto(w, IF gone[i] \/ cache[i] # None THEN "unlock" ELSE "load")
    /\ UNCHANGED <<inodes, ref, held, call, file, cache, kernel>>

\* get_block: an inode that has no file any more has no block either.
ReadStore(w) ==
    /\ On(w, "read", "load")
    /\ LET i == Ino(w) IN
         /\ got' = [got EXCEPT ![w] = IF gone[i] THEN Hole ELSE content[i]]
         /\ Goto(w, IF gone[i] THEN "unlock" ELSE "insert")
    /\ UNCHANGED <<inodes, ref, held, call, file, cache, kernel>>

\* BlockCache::insert, which may also find the block too large to keep.
Insert(w) ==
    /\ On(w, "read", "insert")
    /\ cache' \in {[cache EXCEPT ![Ino(w)] = b] : b \in {got[w], None}}
    /\ Goto(w, "unlock")
    /\ UNCHANGED <<inodes, ref, held, call, got, file, kernel>>

\* overlay_tail_size
Attributes(w) ==
    /\ On(w, "lookup", "body")
    /\ Goto(w, "unlock")
    /\ UNCHANGED <<inodes, ref, held, call, got, file, cache, kernel>>

\* Every handler that changes the file empties the cache first.
InvalidateNothing(w) ==                                            \* mutant
    /\ pc[w] = "body" /\ call[w].op \in Exclusive
    /\ Goto(w, "change")
    /\ UNCHANGED <<inodes, ref, held, call, got, file, cache, kernel>>
Invalidate(w) ==
    /\ pc[w] = "body" /\ call[w].op \in Exclusive
    /\ cache' = [cache EXCEPT ![Ino(w)] = None]
    /\ Goto(w, "change")
    /\ UNCHANGED <<inodes, ref, held, call, got, file, kernel>>

\* write, truncate: a removed inode reports an error and stays as it is.
Change(w) ==
    /\ On(w, "write", "change")
    /\ content' = IF gone[Ino(w)] THEN content ELSE [content EXCEPT ![Ino(w)] = @ + 1]
    /\ Goto(w, "unlock")
    /\ UNCHANGED <<inodes, ref, held, call, got, gone, told, cache, kernel>>

\* fsync and flush: a failed one answers without telling the kernel.
CommitUnderLock(w) ==                                              \* mutant
    /\ On(w, "sync", "change")
    /\ pinned[Ino(w)] = "no"
    /\ page' = [page EXCEPT ![Ino(w)] = None]
    /\ got' = [got EXCEPT ![w] = content[Ino(w)]]
    /\ Goto(w, "unlock")
    /\ UNCHANGED <<inodes, ref, held, call, file, cache, looked, pinned>>
Commit(w) ==
    /\ On(w, "sync", "change")
    /\ got' \in {[got EXCEPT ![w] = v] : v \in {content[Ino(w)], None}}
    /\ Goto(w, "unlock")
    /\ UNCHANGED <<inodes, ref, held, call, file, cache, kernel>>

\* unlink drops the tail buffer, forget writes it out first.
DropTail(w) ==
    /\ call[w].op \in Evicting /\ pc[w] = "change"
    /\ Goto(w, "unlock")
    /\ UNCHANGED <<inodes, ref, held, call, got, file, cache, kernel>>

-----------------------------------------------------------------------------
(* Replies                                                                  *)

\* A worker still has its Arc when the kernel gets the answer.
Answer(w) == Goto(w, "drop") /\ UNCHANGED <<inodes, ref, held, call, got, content, gone, cache>>

ReplyRead(w) ==
    /\ On(w, "read", "reply")
    /\ page' = [page EXCEPT ![Ino(w)] = got[w]]
    /\ pinned' = [pinned EXCEPT ![Ino(w)] = "no"]
    /\ Answer(w) /\ UNCHANGED <<looked, told>>

ReplyLookup(w) ==
    /\ On(w, "lookup", "reply")
    /\ looked' = [looked EXCEPT ![Ino(w)] = TRUE]
    /\ Answer(w) /\ UNCHANGED <<page, pinned, told>>

\* inval_inode, a synchronous call, waits for the page's lock.
ReplySyncKeepingPages(w) ==                                        \* mutant
    /\ On(w, "sync", "reply") /\ got[w] # None
    /\ told' = [told EXCEPT ![Ino(w)] = IF got[w] > @ THEN got[w] ELSE @]
    /\ Answer(w) /\ UNCHANGED kernel
ReplySync(w) ==
    /\ On(w, "sync", "reply") /\ got[w] # None
    /\ pinned[Ino(w)] = "no"
    /\ page' = [page EXCEPT ![Ino(w)] = None]
    /\ told' = [told EXCEPT ![Ino(w)] = IF got[w] > @ THEN got[w] ELSE @]
    /\ Answer(w) /\ UNCHANGED <<looked, pinned>>

\* The kernel refuses it, or the mount has no notifier yet: a warning at most,
\* and the request still ends well.
ReplyUntold(w) ==
    /\ On(w, "sync", "reply") /\ got[w] # None
    /\ Answer(w) /\ UNCHANGED <<told, kernel>>

\* Nothing is committed and nothing is told.
ReplyFailed(w) ==
    /\ On(w, "sync", "reply") /\ got[w] = None
    /\ Answer(w) /\ UNCHANGED <<told, kernel>>

ReplyOther(w) ==
    /\ call[w].op \in {"write", "unlink", "forget"} /\ pc[w] = "reply"
    /\ Answer(w) /\ UNCHANGED <<looked, page, pinned, told>>

Finish(w) ==
    /\ pc[w] = "drop"
    /\ ref' = [ref EXCEPT ![w] = None]
    /\ call' = [call EXCEPT ![w] = Idle]
    /\ got' = [got EXCEPT ![w] = None]
    /\ Goto(w, "idle")
    /\ UNCHANGED <<inodes, held, file, cache, kernel>>

-----------------------------------------------------------------------------

Init ==
    /\ inodes = [i \in Inos |-> None]
    /\ ref = [w \in Workers |-> None] /\ held = [w \in Workers |-> "no"]
    /\ pc = [w \in Workers |-> "idle"] /\ call = [w \in Workers |-> Idle]
    /\ got = [w \in Workers |-> None]
    /\ content = [i \in Inos |-> 1] /\ gone = [i \in Inos |-> FALSE]
    /\ told = [i \in Inos |-> Hole]
    /\ cache = [i \in Inos |-> None]
    /\ looked = [i \in Inos |-> FALSE] /\ page = [i \in Inos |-> None]
    /\ pinned = [i \in Inos |-> "no"]

Handle(w) ==
    \/ Remove(w) \/ LockFor(w) \/ Unlock(w) \/ Evict(w)
    \/ ReadCache(w) \/ ReadStore(w) \/ Insert(w) \/ Attributes(w)
    \/ Invalidate(w) \/ Change(w) \/ Commit(w) \/ DropTail(w)
    \/ ReplyRead(w) \/ ReplyLookup(w) \/ ReplyFailed(w) \/ ReplyOther(w) \/ Finish(w)

Next ==
    \/ \E w \in Workers, op \in Ops \ {"read"}, i \in Inos : Send(w, op, i)
    \/ \E i \in Inos : Fault(i)
    \/ \E w \in Workers, i \in Inos : Serve(w, i)
    \/ \E w \in Workers : Acquire(w) \/ ReplySync(w) \/ ReplyUntold(w) \/ Handle(w)

Spec == Init /\ [][Next]_vars

\* A running thread goes on.  RwLock is eventually fair and the kernel wakes
\* the waiters for a page, and answers queued reads, in the order they came.
\* That a sync gets on because the kernel refuses its invalidation is not
\* counted on.
FairSpec ==
    /\ Spec
    /\ \A w \in Workers : WF_vars(Handle(w)) /\ SF_vars(Acquire(w)) /\ SF_vars(ReplySync(w))
    /\ \A i \in Inos : SF_vars(\E w \in Workers : Serve(w, i))

-----------------------------------------------------------------------------
(* Properties                                                               *)

Versions == 1 .. MaxVersion
Steps == {"idle", "remove", "fetch", "lock", "body", "load", "insert", "change",
          "unlock", "evict", "reply", "drop"}

TypeOK ==
    /\ inodes \in [Inos -> Locks \cup {None}] /\ ref \in [Workers -> Locks \cup {None}]
    /\ held \in [Workers -> {"no", "read", "write"}]
    /\ \A w \in Workers : held[w] # "no" => ref[w] # None
    /\ pc \in [Workers -> Steps]
    /\ call \in [Workers -> [op : Shared \cup Exclusive, ino : Inos] \cup {Idle}]
    /\ got \in [Workers -> {None, Hole} \cup Versions]
    /\ content \in [Inos -> Versions] /\ gone \in [Inos -> BOOLEAN]
    /\ told \in [Inos -> {Hole} \cup Versions]
    /\ cache \in [Inos -> Versions \cup {None}]
    /\ looked \in [Inos -> BOOLEAN] /\ page \in [Inos -> {None, Hole} \cup Versions]
    /\ pinned \in [Inos -> {"no", "queued", "served"}]

\* However lookups, evictions and handlers interleave, a handler that changes
\* an inode is alone with it: the table never hands out a second lock while
\* the first is in use.
WriterAlone ==
    \A v, w \in Workers :
        v # w /\ Ino(v) = Ino(w) /\ held[v] = "write" => held[w] = "no"

\* The block cache has no version of a block but the current one, although
\* reads fill it in several steps; and nothing of an inode that unlink has
\* finished with.
NoStaleBlock ==
    \A i \in Inos :
        cache[i] # None =>
            \/ cache[i] = content[i] /\ (gone[i] => SameName(i))
            \/ \E w \in Workers : Ino(w) = i /\ held[w] = "write"

\* A read-only mapping sees what another descriptor has synced: once the kernel
\* has taken the invalidation of a sync, no page older than what it committed is
\* there, not even by a read that was under way.
SyncedPagesFresh == \A i \in Inos : page[i] \in Versions => page[i] >= told[i]

\* Every request is answered: no lock of the program and no page lock of the
\* kernel is waited for in a circle.
EveryCallReturns ==
    /\ \A w \in Workers : pc[w] = "fetch" ~> pc[w] = "idle"
    /\ \A i \in Inos : pinned[i] = "queued" ~> pinned[i] = "no"
=============================================================================
