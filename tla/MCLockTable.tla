---------------------------- MODULE MCLockTable ----------------------------
(* A small instance of LockTable for TLC.                                   *)
EXTENDS LockTable

MCOps == {"lookup", "read", "write", "sync", "unlink", "forget"}
=============================================================================
