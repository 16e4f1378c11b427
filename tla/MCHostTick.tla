----------------------------- MODULE MCHostTick -----------------------------
EXTENDS HostTick

ClientSymmetry == Permutations(Clients)
=============================================================================
