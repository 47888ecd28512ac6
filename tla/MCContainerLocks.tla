-------------------------- MODULE MCContainerLocks --------------------------
(* A small instance of ContainerLocks for TLC.                              *)
EXTENDS ContainerLocks, TLC

MCOps == {"read", "getattr", "write", "truncate", "chmod", "fsync", "create", "unlink", "rename"}
MCSymmetry == Permutations(Threads) \cup Permutations(Inos)
=============================================================================
