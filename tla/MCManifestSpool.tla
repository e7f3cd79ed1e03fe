-------------------------- MODULE MCManifestSpool --------------------------
EXTENDS ManifestSpool, TLC

Symmetric == Permutations(Procs)
=============================================================================
