---------------------------- MODULE MCCredentials ----------------------------
(* Small instances of Credentials. *)
EXTENDS Credentials, TLC

IdSymmetry == Permutations(Handshakes) \cup Permutations(SessionIds)
Symmetry ==
    IdSymmetry \cup Permutations(Tokens) \cup Permutations(Passwords) \cup Permutations(Reqs)
=============================================================================
