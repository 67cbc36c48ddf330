---------------------------- MODULE MCProvisioning ----------------------------
EXTENDS Provisioning, TLC

\* Requests differ only by name.
RequestSymmetry == Permutations(Requests)
=============================================================================
