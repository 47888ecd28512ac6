------------------------------ MODULE MCRewrite ------------------------------
EXTENDS Rewrite, TLC

MCSymmetry == Permutations(Ids)
=============================================================================
