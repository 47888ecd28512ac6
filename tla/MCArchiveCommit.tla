-------------------------- MODULE MCArchiveCommit --------------------------
(* Small instances of ArchiveCommit for TLC.                                *)
EXTENDS ArchiveCommit

\* Writing block 1 of an empty archive needs a gap block first.
MCOneBlock == {1}
=============================================================================
