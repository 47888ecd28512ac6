---------------------------- MODULE ContainerLocks ----------------------------
(***************************************************************************)
(* Who waits for whom in the single-file store: the handlers of ScrollzRw   *)
(* (rwfs.rs) over ContainerStore (store/container.rs), as what they do with  *)
(* locks.  Handlers of different inodes meet in commit_lock, in redb's only  *)
(* writer and in `inner`, the lock of the two buffers; handlers of one inode *)
(* meet in its lock as well.                                                 *)
(*                                                                          *)
(* What the calls do under their locks is the business of ContainerBuffer.   *)
(* A call is a sequence of steps; visits to the buffers that follow each     *)
(* other under the same other locks are one.                                 *)
(***************************************************************************)
EXTENDS Sequences

CONSTANTS
    Threads,    \* of the FUSE session
    Inos,
    Ops         \* the calls of the workload

ASSUME OpsAssumption ==
    Ops \subseteq {"read", "getattr", "write", "truncate", "chmod", "fsync", "create", "unlink", "rename"}

VARIABLES
    todo,       \* what is left of the call of each thread; nothing if it has returned
    held        \* guards: a thread, a lock and how it is held

vars == <<todo, held>>

Locks == Inos \cup {"next_ino", "commit_lock", "redb", "inner"}

-----------------------------------------------------------------------------
(* The calls                                                                *)

Take(lock) == [do |-> "take", lock |-> lock, mode |-> "write"]
Share(lock) == [do |-> "take", lock |-> lock, mode |-> "read"]
Drop(lock) == [do |-> "drop", lock |-> lock]
Under(lock, steps) == <<Take(lock)>> \o steps \o <<Drop(lock)>>

\* The call may end here, with an error or because nothing is left to do: all
\* of its guards go.
MayEnd == [do |-> "may end"]

\* get_block, put_block, truncate_blocks, block_geometry, row_to_attr.  Reading
\* redb takes no lock.
Buffers == Under("inner", <<>>)

\* commit_pending: the swap, which may find nothing pending; the copy; the
\* transaction of flush_to_redb, over whether it fails or not before the buffers
\* are visited again.
CommitHoldingInner ==                                              \* mutant
    Under("commit_lock", Under("inner", <<MayEnd>> \o Under("redb", <<>>)))
CommitPending ==
    Under("commit_lock", Under("inner", <<MayEnd>>) \o Buffers \o Under("redb", <<>>) \o Buffers)

\* Rows of redb: create, rename, setattr.
Transaction == Under("redb", <<MayEnd>>)

\* unlink clears what is pending inside of its transaction, and once more after
\* it.
RemoveRows == Under("redb", <<MayEnd>> \o Buffers \o <<MayEnd>>) \o Buffers

\* overlay_tail_size
TailSize(i) == <<Share(i)>> \o Buffers \o <<Drop(i)>>

\* forget_inode_locked
ForgetTail(i) == Under(i, <<>>)

\* fsync, flush, release and the kernel's forget.
Fsync(i) == Under(i, Buffers \o <<MayEnd>> \o CommitPending)

Calls(op) ==
    CASE op = "read"     -> {<<Share(i)>> \o Buffers \o <<MayEnd, Drop(i)>> : i \in Inos}
      [] op = "getattr"  -> {Buffers \o <<MayEnd>> \o TailSize(i) : i \in Inos}
      [] op = "write"    -> {Under(i, Buffers) : i \in Inos}
      [] op = "truncate" -> {Buffers \o Under(i, Buffers \o <<MayEnd>>) \o Buffers \o TailSize(i) : i \in Inos}
      [] op = "chmod"    -> {Buffers \o Transaction \o Buffers \o TailSize(i) : i \in Inos}
      [] op = "fsync"    -> {Fsync(i) : i \in Inos}
      [] op = "create"   -> {Under("next_ino", <<>>) \o Transaction \o Buffers}
      [] op = "unlink"   -> {Buffers \o RemoveRows \o ForgetTail(i) : i \in Inos}
      [] op = "rename"   -> {Buffers \o Under(i, Buffers) \o Transaction \o <<MayEnd>> \o ForgetTail(j) :
                                i, j \in Inos}

-----------------------------------------------------------------------------
(* The threads                                                              *)

Guard(t, step) == [thread |-> t, lock |-> step.lock, mode |-> step.mode]
Step(t) == Head(todo[t])
Doing(t, what) == todo[t] # <<>> /\ Step(t).do = what
GoOn(t) == todo' = [todo EXCEPT ![t] = Tail(@)]

\* A writer that waits keeps new readers out.
Waits(t, lock) == Doing(t, "take") /\ Step(t).lock = lock /\ Step(t).mode = "write"

MayTakeAnyTime(t, step) == TRUE                                    \* mutant
MayTake(t, step) ==
    IF step.mode = "write" THEN \A g \in held : g.lock # step.lock
    ELSE /\ \A g \in held : g.lock = step.lock => g.mode = "read"
         /\ \A u \in Threads \ {t} : ~Waits(u, step.lock)

Acquire(t) ==
    /\ Doing(t, "take") /\ MayTake(t, Step(t))
    /\ held' = held \cup {Guard(t, Step(t))}
    /\ GoOn(t)

Release(t) ==
    /\ Doing(t, "drop")
    /\ held' = {g \in held : g.thread # t \/ g.lock # Step(t).lock}
    /\ GoOn(t)

End(t) ==
    /\ Doing(t, "may end")
    /\ held' = {g \in held : g.thread # t}
    /\ todo' = [todo EXCEPT ![t] = <<>>]

PassEnd(t) ==
    /\ Doing(t, "may end")
    /\ GoOn(t)
    /\ UNCHANGED held

\* Bound: one call for each thread.  A thread that has not begun holds nothing,
\* and a lock knows nothing of the calls before: those that wait for each other
\* are at most as many as the threads.
Init ==
    /\ todo \in [Threads -> UNION {Calls(op) : op \in Ops}]
    /\ held = {}

Run(t) == Release(t) \/ End(t) \/ PassEnd(t)
Next == \E t \in Threads : Acquire(t) \/ Run(t)

Spec == Init /\ [][Next]_vars

-----------------------------------------------------------------------------
(* Properties                                                               *)

\* The types; a lock that is held for writing is held once, and a call that has
\* ended holds nothing.
TypeOK ==
    /\ held \subseteq [thread : Threads, lock : Locks, mode : {"read", "write"}]
    /\ \A g, h \in held : g.lock = h.lock /\ g.mode = "write" => g = h
    /\ \A g \in held : todo[g.thread] # <<>>

CanGoOn(t) == todo[t] # <<>> /\ (Doing(t, "take") => MayTake(t, Step(t)))

\* No lock of an inode, of the commits, of redb's writer or of the buffers is
\* waited for in a circle, however calls for several inodes meet and wherever
\* they fail: while calls are under way one of them can go on.  Each step leaves
\* less to do, so they all return.
NoCircle == (\E t \in Threads : todo[t] # <<>>) => \E t \in Threads : CanGoOn(t)
=============================================================================
