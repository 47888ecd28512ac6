--------------------------- MODULE MCPassthrough ---------------------------
EXTENDS Passthrough, TLC

MCWorkloads ==
    {[ops |-> {"lookup", "create", "mkdir", "unlink", "rmdir", "readdir"}, renames |-> "fresh", removed |-> FALSE],
     [ops |-> {"lookup", "create", "mkdir", "unlink", "rmdir", "rename"}, renames |-> "fresh", removed |-> FALSE],
     [ops |-> {"lookup", "create", "open", "unlink"}, renames |-> "fresh", removed |-> FALSE],
     [ops |-> {"lookup", "create", "setattr", "unlink", "rename"}, renames |-> "fresh", removed |-> FALSE]}

\* Renames of directories, and over what is there.
AnyRename == {[ops |-> {"lookup", "create", "mkdir", "rename"}, renames |-> "any", removed |-> FALSE]}

\* ftruncate and fchmod of an open file whose name is gone.
Removed == {[ops |-> {"lookup", "create", "setattr", "unlink"}, renames |-> "fresh", removed |-> TRUE]}

MCSymmetry == Permutations(Threads) \cup Permutations(Names) \cup Permutations(Objects)
=============================================================================
