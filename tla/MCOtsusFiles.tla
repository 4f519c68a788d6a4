----------------------------- MODULE MCOtsusFiles -----------------------------
EXTENDS OtsusFiles, TLC

Symmetry == Permutations(Request) \cup Permutations(Label)
===============================================================================
