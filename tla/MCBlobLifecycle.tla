-------------------------- MODULE MCBlobLifecycle --------------------------
EXTENDS BlobRefinement, TLC

\* All folders belong to one user.
CONSTANT u1
OneOwner == [f \in Folders |-> u1]

\* Bounds the quota run: one blob at most ages, or goes through the trash; what
\* comes after a second one did, or the same one did both, is not explored.
OneAgeing == Cardinality(oldRow) + Cardinality(deletedAt) <= 1

Symmetry == Permutations(Blobs) \cup Permutations(Reqs)
=============================================================================
