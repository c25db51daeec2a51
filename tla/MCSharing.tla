------------------------------ MODULE MCSharing ------------------------------
(* Small instances of Sharing. *)
EXTENDS Sharing, TLC

\* One account uploads the files.
MCBlobOwner == [b \in Blobs |-> CHOOSE u \in Users : TRUE]

Symmetry == Permutations(ShareIds) \cup Permutations(Reqs)
=============================================================================
