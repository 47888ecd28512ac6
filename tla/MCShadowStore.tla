--------------------------- MODULE MCShadowStore ---------------------------
(* Small instances of ShadowStore for TLC.                                  *)
EXTENDS ShadowStore, TLC

MCSymmetry == Permutations(Threads)
MCHome == <<"d", "a">>

\* The store's own promise: only changes of one inode exclude each other.
Data == [ops |-> {"get", "head", "put", "cut", "sync", "fail", "release"}, locked |-> FALSE, changes |-> 2]
\* A file grows last: see README on a hole that is there when a commit fails.
Sizes == [ops |-> {"stat", "put", "cut", "grow", "sync", "fail"}, locked |-> FALSE, changes |-> 3]
Removal == [ops |-> {"get", "put", "sync", "create", "unlink"}, locked |-> FALSE, changes |-> 1]

\* As the handlers call it, with the inode's lock.
Moves == [ops |-> {"put", "cut", "grow", "hole", "sync", "fail", "create", "unlink", "rename",
                   "crash"},
          locked |-> TRUE, changes |-> 2]

\* Directories move while nothing of their files is held in memory.
Directories == [ops |-> {"renamedir", "crash"}, locked |-> TRUE, changes |-> 0]

MCWorkloads == {Data, Sizes, Removal, Moves, Directories}
ASSUME WorkloadsOrderly == Orderly(MCWorkloads) /\ ReadInPlace(MCWorkloads)

MCReadMoved == {[ops |-> {"get", "create", "rename"}, locked |-> TRUE, changes |-> 0]}
MCMoveDir == {[ops |-> {"put", "sync", "renamedir"}, locked |-> TRUE, changes |-> 1]}
=============================================================================
