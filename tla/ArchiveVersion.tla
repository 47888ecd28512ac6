-------------------------- MODULE ArchiveVersion --------------------------
(***************************************************************************)
(* The effect of one commit on the block sequence of an archive, shared by *)
(* the abstract file and by the write path.                                *)
(***************************************************************************)
EXTENDS Integers, Sequences

CONSTANTS Zero    \* the content of a gap block

\* Blocks after truncating to keep and then writing the dirty ones, given by
\* block number; the positions in between are zero.
Overlay(blocks, keep, dirty) ==
    LET base == IF keep < Len(blocks) THEN keep ELSE Len(blocks)
        n    == CHOOSE k \in {base} \cup {i + 1 : i \in DOMAIN dirty} :
                  k >= base /\ \A i \in DOMAIN dirty : k > i
    IN  [j \in 1 .. n |-> IF j - 1 \in DOMAIN dirty THEN dirty[j - 1]
                          ELSE IF j <= base THEN blocks[j] ELSE Zero]
=============================================================================
