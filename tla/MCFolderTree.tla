----------------------------- MODULE MCFolderTree -----------------------------
(* Small instances of FolderTree. *)
EXTENDS FolderTree, TLC

Symmetry == Permutations(Reqs) \cup Permutations(Names)

\* One request for each user (there are as many), and all requests of one user.
OneEach == CHOOSE c \in [Reqs -> Users] : \A p, q \in Reqs : c[p] = c[q] => p = q
OneForAll == [p \in Reqs |-> CHOOSE u \in Users : TRUE]
=============================================================================
