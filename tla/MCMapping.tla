------------------------------ MODULE MCMapping ------------------------------
EXTENDS Mapping, TLC

Symmetric == Permutations(Mappings)
=============================================================================
