------------------------- MODULE MCContainerBuffer -------------------------
(* Small instances of ContainerBuffer for TLC.                              *)
EXTENDS ContainerBuffer

\* One file of up to two blocks, another of one.
MCTwoFiles == <<2, 1>>

\* A single file of up to two blocks.
MCOneFile == <<2>>
=============================================================================
